---- MODULE Spec2Model ----
(***************************************************************************)
(* A model of the i18n tools: the key generator, the locale store          *)
(* synchronizer and the source rewriter of I18nManager                     *)
(* (src/i18n_manager_modern.py, the Flet edition) and, where the editions  *)
(* differ, of I18nManagerQt (src/i18n_manager_qt.py).                      *)
(*                                                                         *)
(* Strings are sequences of one-character strings, so that strip, split,   *)
(* startswith, substring search and the regular expressions of the code    *)
(* are computed character by character.  A Python dict is a sequence of    *)
(* [k, v] records with distinct k, in insertion order, as json.load and    *)
(* json.dump keep it.                                                      *)
(***************************************************************************)
EXTENDS Integers, Sequences, FiniteSets, TLC

VARIABLES
    edition,            \* "modern" (I18nManager) or "qt" (I18nManagerQt)
    detected_strings,   \* self.detected_strings: the candidate list
    generated_keys,     \* self.generated_keys: the key mapping
    gen_runs,           \* calls of generate_translation_keys since detection
    prev_generated,     \* the mapping the previous call returned
    locales,            \* the locales directory: language code -> [exists, data]
    source_language,    \* self.source_language
    selected_languages, \* self.selected_languages of the Qt window
    tr,                 \* translate_to_languages in progress: its locals, or idle
    sync_streak,        \* calls of the synchronizer in a row, nothing else between
    provider_log,       \* history: the provider calls of the last translation pass
    src_files,          \* the source files of the project: path -> content
    backup_dir,         \* backup_dir of the replace run: file name -> [exists, data]
    rp,                 \* replace_in_source_code in progress: its locals, or idle
    rewrites,           \* history: the files the run wrote, each with the content read
    copy_failed,        \* history: the files whose copy2 raised in the run
    replace_runs,       \* calls of replace_in_source_code
    clf_input,          \* the argument of a call of _is_user_facing
    clf_result,         \* what the call did: "True", "False", an exception; "none" before
    validation,         \* the last call of validate_translations and what it returned
    removal,            \* the last call of remove_duplicate_keys_from_locales: its return,
                        \* and (history) the directory it found
    project_path,       \* manager.project_path: the selected project, "" for None
    src_dir,            \* manager.src_dir: [project, name], NoDir for None
    has_i18n_setup,     \* manager.has_i18n_setup
    locales_dir,        \* manager.locales_dir: the source directory it lies in, or NoDir
    project_selected,   \* project_selected of main()
    busy,               \* busy of main()
    last_event,         \* history: the last UI event handled and what it reported
    workers,            \* the worker threads started and not finished: [op, pc]
    scan                \* a call of detect_hardcoded_text: where the project lies, and
                        \* what became of the files visited so far

genVars == <<detected_strings, generated_keys, gen_runs, prev_generated>>
localeVars == <<locales, source_language, selected_languages, tr, sync_streak,
               provider_log>>
replaceVars == <<src_files, backup_dir, rp, rewrites, copy_failed, replace_runs>>
clfVars == <<clf_input, clf_result>>
maintVars == <<validation, removal>>
uiVars == <<project_path, src_dir, has_i18n_setup, locales_dir, project_selected, busy,
           last_event, workers>>
scanVars == <<scan>>
vars == <<edition, genVars, localeVars, replaceVars, clfVars, maintVars, uiVars, scanVars>>

----------------------------------------------------------------------------
(* Characters and strings *)

Upper == {"A", "B", "C", "D", "E", "F", "G", "H", "I", "J", "K", "L", "M",
          "N", "O", "P", "Q", "R", "S", "T", "U", "V", "W", "X", "Y", "Z"}
Lower == {"a", "b", "c", "d", "e", "f", "g", "h", "i", "j", "k", "l", "m",
          "n", "o", "p", "q", "r", "s", "t", "u", "v", "w", "x", "y", "z"}
Digits == {"0", "1", "2", "3", "4", "5", "6", "7", "8", "9"}
Whitespace == {" "}

\* str.lower(), on one character
LowerChar(c) ==
    CASE c = "A" -> "a"
      [] c = "B" -> "b"
      [] c = "C" -> "c"
      [] c = "D" -> "d"
      [] c = "E" -> "e"
      [] c = "F" -> "f"
      [] c = "G" -> "g"
      [] c = "H" -> "h"
      [] c = "I" -> "i"
      [] c = "J" -> "j"
      [] c = "K" -> "k"
      [] c = "L" -> "l"
      [] c = "M" -> "m"
      [] c = "N" -> "n"
      [] c = "O" -> "o"
      [] c = "P" -> "p"
      [] c = "Q" -> "q"
      [] c = "R" -> "r"
      [] c = "S" -> "s"
      [] c = "T" -> "t"
      [] c = "U" -> "u"
      [] c = "V" -> "v"
      [] c = "W" -> "w"
      [] c = "X" -> "x"
      [] c = "Y" -> "y"
      [] c = "Z" -> "z"
      [] OTHER -> c

\* str.lower()
StrLower(s) == [i \in 1..Len(s) |-> LowerChar(s[i])]

\* sub in s
Contains(s, sub) ==
    \E i \in 1..(Len(s) - Len(sub) + 1) : SubSeq(s, i, i + Len(sub) - 1) = sub

\* s.startswith(prefix)
StartsWith(s, prefix) ==
    Len(s) >= Len(prefix) /\ SubSeq(s, 1, Len(prefix)) = prefix

RECURSIVE SplitLoop(_, _, _)
SplitLoop(s, cur, acc) ==
    IF s = <<>>
    THEN IF cur = <<>> THEN acc ELSE Append(acc, cur)
    ELSE IF Head(s) \in Whitespace
         THEN SplitLoop(Tail(s), <<>>, IF cur = <<>> THEN acc ELSE Append(acc, cur))
         ELSE SplitLoop(Tail(s), Append(cur, Head(s)), acc)

\* str.split(): the maximal runs of non-whitespace characters
Split(s) == SplitLoop(s, <<>>, <<>>)

RECURSIVE Join(_, _)
\* sep.join(words)
Join(sep, words) ==
    IF words = <<>> THEN <<>>
    ELSE IF Len(words) = 1 THEN words[1]
    ELSE words[1] \o sep \o Join(sep, Tail(words))

RECURSIVE Concat(_)
\* ''.join(words)
Concat(words) == IF words = <<>> THEN <<>> ELSE Head(words) \o Concat(Tail(words))

\* ' '.join(text.strip().split())
Normalize(text) == Join(<<" ">>, Split(text))

DigitChar(d) ==
    CASE d = 0 -> "0" [] d = 1 -> "1" [] d = 2 -> "2" [] d = 3 -> "3"
      [] d = 4 -> "4" [] d = 5 -> "5" [] d = 6 -> "6" [] d = 7 -> "7"
      [] d = 8 -> "8" [] d = 9 -> "9"

RECURSIVE Str(_)
\* str(n) of a non-negative integer, as the f-string formats the counter
Str(n) == IF n < 10 THEN <<DigitChar(n)>> ELSE Str(n \div 10) \o <<DigitChar(n % 10)>>

----------------------------------------------------------------------------
(* Python dicts: sequences of [k, v] records *)

DictKeys(d) == {d[i].k : i \in 1..Len(d)}

DictHas(d, key) == \E i \in 1..Len(d) : d[i].k = key

\* d[key], for a key of d
DictGet(d, key) == d[CHOOSE i \in 1..Len(d) : d[i].k = key].v

\* d.get(key, default)
DictGetDefault(d, key, default) == IF DictHas(d, key) THEN DictGet(d, key) ELSE default

\* d[key] = value: in place for a key of d, appended for a new one
DictSet(d, key, value) ==
    IF DictHas(d, key)
    THEN [i \in 1..Len(d) |-> IF d[i].k = key THEN [k |-> key, v |-> value] ELSE d[i]]
    ELSE Append(d, [k |-> key, v |-> value])

----------------------------------------------------------------------------
(* Key generator *)

IsWordChar(c) == c \in Upper \cup Lower \cup Digits \cup {"_"}

RECURSIVE LowerRun(_, _)
\* the length of the run of [a-z] that starts at position i
LowerRun(s, i) == IF i <= Len(s) /\ s[i] \in Lower THEN 1 + LowerRun(s, i + 1) ELSE 0

RECURSIVE FindCapWordsFrom(_, _)
FindCapWordsFrom(s, i) ==
    IF i > Len(s) THEN <<>>
    ELSE IF /\ (i = 1 \/ ~IsWordChar(s[i - 1]))
            /\ s[i] \in Upper
            /\ LowerRun(s, i + 1) >= 1
         THEN <<SubSeq(s, i, i + LowerRun(s, i + 1))>>
                  \o FindCapWordsFrom(s, i + 1 + LowerRun(s, i + 1))
         ELSE FindCapWordsFrom(s, i + 1)

\* re.findall(r'\b[A-Z][a-z]+', text)
FindCapWords(text) == FindCapWordsFrom(text, 1)

TextLiteral == <<"t", "e", "x", "t">>

\* ''.join(word.lower() for word in words[:3]) or 'text'
KeyBase(text) ==
    LET words == FindCapWords(text)
        first3 == SubSeq(words, 1, IF Len(words) < 3 THEN Len(words) ELSE 3)
        joined == Concat([i \in 1..Len(first3) |-> StrLower(first3[i])])
    IN IF joined = <<>> THEN TextLiteral ELSE joined

S_nav == <<"n", "a", "v">>
S_footer == <<"f", "o", "o", "t", "e", "r">>
S_home == <<"h", "o", "m", "e">>
S_about == <<"a", "b", "o", "u", "t">>
S_contact == <<"c", "o", "n", "t", "a", "c", "t">>
S_auth == <<"a", "u", "t", "h">>
S_login == <<"l", "o", "g", "i", "n">>
S_form == <<"f", "o", "r", "m">>
S_button == <<"b", "u", "t", "t", "o", "n">>
S_common == <<"c", "o", "m", "m", "o", "n">>

\* the keyword table of _determine_section, in dict order
SectionTable ==
    << [k |-> S_nav, v |-> S_nav], [k |-> S_footer, v |-> S_footer],
       [k |-> S_home, v |-> S_home], [k |-> S_about, v |-> S_about],
       [k |-> S_contact, v |-> S_contact], [k |-> S_auth, v |-> S_auth],
       [k |-> S_login, v |-> S_auth], [k |-> S_form, v |-> S_form],
       [k |-> S_button, v |-> S_button] >>

\* _determine_section: the first keyword of the table found in the lowered path
DetermineSection(filepath) ==
    LET path_lower == StrLower(filepath)
        hits == {i \in 1..Len(SectionTable) : Contains(path_lower, SectionTable[i].k)}
    IN IF hits = {} THEN S_common
       ELSE SectionTable[CHOOSE i \in hits : \A j \in hits : i <= j].v

\* f'{section}.{key_name}'
FullKey(section, key_name) == section \o <<".">> \o key_name

RECURSIVE DedupLoop(_, _, _)
DedupLoop(strings, seen_texts, deduplicated) ==
    IF strings = <<>> THEN deduplicated
    ELSE LET string_info == Head(strings)
             normalized == Normalize(string_info.text)
         IN IF normalized \notin seen_texts
            THEN DedupLoop(Tail(strings), seen_texts \cup {normalized},
                           Append(deduplicated, string_info))
            ELSE DedupLoop(Tail(strings), seen_texts, deduplicated)

\* _deduplicate_strings: the first occurrence of each normalized text
DeduplicateStrings(strings) == DedupLoop(strings, {}, <<>>)

\* an if in place of the while: one retry only
UniqueKeyNameWhileOnce(section, key_base, key_name, counter, used_keys) ==
    IF FullKey(section, key_name) \in used_keys
    THEN key_base \o Str(counter)
    ELSE key_name

RECURSIVE UniqueKeyName(_, _, _, _, _)
\* the while loop of generate_translation_keys: key_base, key_base1, key_base2, ...
UniqueKeyName(section, key_base, key_name, counter, used_keys) ==
    IF FullKey(section, key_name) \in used_keys
    THEN UniqueKeyName(section, key_base, key_base \o Str(counter), counter + 1, used_keys)
    ELSE key_name

RECURSIVE GenerateLoop(_, _, _)
\* the for loop of generate_translation_keys
GenerateLoop(strings, mapping, used_keys) ==
    IF strings = <<>> THEN mapping
    ELSE LET string_info == Head(strings)
             text == string_info.text
             filepath == string_info.file
             section == DetermineSection(filepath)
             key_base == KeyBase(text)
             key_name == UniqueKeyName(section, key_base, key_base, 1, used_keys)
             full_key == FullKey(section, key_name)
             entry == [text |-> text, file |-> filepath,
                       context |-> string_info.context,
                       section |-> section, key_name |-> key_name]
         IN GenerateLoop(Tail(strings), DictSet(mapping, full_key, entry),
                         used_keys \cup {full_key})

\* a generator that seeds used_keys from the mapping of the previous run
GenerateTranslationKeysStale(self_generated_keys, strings) ==
    GenerateLoop(DeduplicateStrings(strings), <<>>, DictKeys(self_generated_keys))

\* I18nManager.generate_translation_keys(self, strings)
GenerateTranslationKeys(self_generated_keys, strings) ==
    GenerateLoop(DeduplicateStrings(strings), <<>>, {})

\* I18nManagerQt.generate_translation_keys(self, strings): no deduplication
QtGenerateTranslationKeys(self_generated_keys, strings) ==
    GenerateLoop(strings, <<>>, {})

----------------------------------------------------------------------------
(* Locale store *)

Langs == {"en", "nl", "de"}

\* a path of the locales directory at which there is no file
NoFile == [exists |-> FALSE, data |-> <<>>]

File(data) == [exists |-> TRUE, data |-> data]

\* translate_to_languages is not running
Idle == [running |-> FALSE, keys_mapping |-> <<>>, languages |-> <<>>, source_lang |-> "en"]

\* marker = '[SRC] ' (translate_to_languages), f'[SRC] {value}' (_sync_nested_dict)
M_SRC == <<"[", "S", "R", "C", "]", " ">>
\* '[EN] ' of the Qt edition, and the '[EN]' its _apply_master_structure tests for
M_EN == <<"[", "E", "N", "]", " ">>
M_EN_NoSpace == <<"[", "E", "N", "]">>

MarkerOf(ed) == IF ed = "qt" THEN M_EN ELSE M_SRC

\* the fully-qualified keys of a locale tree: its leaves, as <<section, key>>
FQKeys(data) ==
    UNION {{<<data[i].k, data[i].v[j].k>> : j \in 1..Len(data[i].v)} : i \in 1..Len(data)}

\* data[section][key], for a fully-qualified key of data
Leaf(data, fq) == DictGet(DictGet(data, fq[1]), fq[2])

RECURSIVE SyncLeavesDoubleMark(_, _, _)
\* a synchronizer that marks again a leaf that is still pending
SyncLeavesDoubleMark(source, target, result) ==
    IF source = <<>> THEN result
    ELSE LET key == Head(source).k
             value == Head(source).v
             old == DictGetDefault(target, key, value)
         IN SyncLeavesDoubleMark(Tail(source), target,
                DictSet(result, key,
                        IF DictHas(target, key) /\ ~StartsWith(old, M_SRC)
                        THEN old ELSE M_SRC \o old))

RECURSIVE SyncLeaves(_, _, _)
\* _sync_nested_dict on a section, the else branch for each key:
\* result[key] = target.get(key, f'[SRC] {value}')
SyncLeaves(source, target, result) ==
    IF source = <<>> THEN result
    ELSE LET key == Head(source).k
             value == Head(source).v
         IN SyncLeaves(Tail(source), target,
                DictSet(result, key, DictGetDefault(target, key, M_SRC \o value)))

RECURSIVE SyncSections(_, _, _)
\* _sync_nested_dict on a tree, the isinstance(value, dict) branch for each key:
\* result[key] = self._sync_nested_dict(value, target.get(key, {}), lang)
SyncSections(source, target, result) ==
    IF source = <<>> THEN result
    ELSE LET key == Head(source).k
             value == Head(source).v
             target_value == DictGetDefault(target, key, <<>>)
         IN SyncSections(Tail(source), target,
                DictSet(result, key, SyncLeaves(value, target_value, <<>>)))

\* _sync_nested_dict(source, target, lang) on a locale tree
SyncNestedDict(source, target) == SyncSections(source, target, <<>>)

\* sync_translation_keys: the locales directory after the call
SyncTranslationKeysResult(dir, base_lang) ==
    IF ~dir[base_lang].exists THEN dir
    ELSE [l \in Langs |->
            IF l = base_lang \/ ~dir[l].exists THEN dir[l]
            ELSE File(SyncNestedDict(dir[base_lang].data, dir[l].data))]

\* full_key.split('.', 1)
SplitKey(full_key) ==
    LET dot == CHOOSE i \in 1..Len(full_key) :
                   full_key[i] = "." /\ \A j \in 1..(i - 1) : full_key[j] # "."
    IN <<SubSeq(full_key, 1, dot - 1), SubSeq(full_key, dot + 1, Len(full_key))>>

RECURSIVE WriteKeys(_, _, _, _)
\* the loop over keys_mapping.items() of translate_to_languages, for one language
WriteKeys(keys_mapping, data, lang, source_lang) ==
    IF keys_mapping = <<>> THEN data
    ELSE LET full_key == Head(keys_mapping).k
             info == Head(keys_mapping).v
             section == SplitKey(full_key)[1]
             key_name == SplitKey(full_key)[2]
             text == info.text
             data1 == IF DictHas(data, section) THEN data ELSE DictSet(data, section, <<>>)
             leaf == IF lang = source_lang THEN text ELSE M_SRC \o text
         IN WriteKeys(Tail(keys_mapping),
                      DictSet(data1, section, DictSet(DictGet(data1, section), key_name, leaf)),
                      lang, source_lang)

\* the members of a list
Range(seq) == {seq[i] : i \in 1..Len(seq)}

\* the first loop of translate_to_languages: the locales directory after it
WriteKeysResult(dir, keys_mapping, languages, source_lang) ==
    [l \in Langs |->
        IF l \in Range(languages)
        THEN File(WriteKeys(keys_mapping, dir[l].data, l, source_lang))
        ELSE dir[l]]

\* what GoogleTranslator(...).translate(original) returns when it returns
ProviderOutput(original) == <<"#">> \o original

\* a slice that starts one character early
OriginalOffByOne(value, marker) == SubSeq(value, Len(marker), Len(value))

\* original = value[len(marker):]
Original(value, marker) == SubSeq(value, Len(marker) + 1, Len(value))

\* an except branch that stores the text without its marker
TranslateLeafUnmarkOnRaise(value, marker, raises) ==
    IF StartsWith(value, marker)
    THEN IF raises THEN Original(value, marker)
         ELSE ProviderOutput(Original(value, marker))
    ELSE value

\* _translate_dict on one leaf: a pending leaf whose provider call does not raise
\* becomes the provider's output, every other leaf stays
TranslateLeaf(value, marker, raises) ==
    IF StartsWith(value, marker)
    THEN IF raises THEN value ELSE ProviderOutput(Original(value, marker))
    ELSE value

\* _translate_dict(data, ...): fails holds the leaves whose provider call raises
TranslateDict(data, marker, fails) ==
    [i \in 1..Len(data) |->
        [k |-> data[i].k,
         v |-> [j \in 1..Len(data[i].v) |->
                  [k |-> data[i].v[j].k,
                   v |-> TranslateLeaf(data[i].v[j].v, marker,
                                       <<data[i].k, data[i].v[j].k>> \in fails)]]]]

\* the second loop of translate_to_languages (_translate_file for each target):
\* fails[l] holds the leaves of l.json whose provider call raises
TranslateFillResult(dir, languages, source_lang, fails) ==
    [l \in Langs |->
        IF l \in Range(languages) /\ l # source_lang
        THEN File(TranslateDict(dir[l].data, M_SRC, fails[l]))
        ELSE dir[l]]

\* the calls translator.translate(original) of the second loop: one for every
\* leaf of a target that starts with the marker
ProviderCalls(dir, languages, source_lang, fails) ==
    UNION {{[lang |-> l, key |-> fq, text |-> Original(Leaf(dir[l].data, fq), M_SRC),
             raised |-> fq \in fails[l]] :
               fq \in {q \in FQKeys(dir[l].data) : StartsWith(Leaf(dir[l].data, q), M_SRC)}} :
           l \in Range(languages) \ {source_lang}}

RECURSIVE MergeLeaves(_, _, _)
\* _merge_dict_keys on a section, the else branch for each key
MergeLeaves(result, source, keep_values) ==
    IF source = <<>> THEN result
    ELSE LET key == Head(source).k
             value == Head(source).v
         IN MergeLeaves(IF keep_values \/ ~DictHas(result, key)
                        THEN DictSet(result, key, value) ELSE result,
                        Tail(source), keep_values)

RECURSIVE MergeDictKeys(_, _, _)
\* _merge_dict_keys(master, source, keep_values) on a locale tree
MergeDictKeys(result, source, keep_values) ==
    IF source = <<>> THEN result
    ELSE LET key == Head(source).k
             value == Head(source).v
             result1 == IF DictHas(result, key) THEN result ELSE DictSet(result, key, <<>>)
         IN MergeDictKeys(DictSet(result1, key,
                                  MergeLeaves(DictGet(result1, key), value, keep_values)),
                          Tail(source), keep_values)

RECURSIVE ApplyLeaves(_, _, _, _)
\* _apply_master_structure on a section, the else branch for each key
ApplyLeaves(master, target, is_english, result) ==
    IF master = <<>> THEN result
    ELSE LET key == Head(master).k
             value == Head(master).v
             leaf == IF DictHas(target, key) /\ ~StartsWith(DictGet(target, key), M_EN_NoSpace)
                     THEN DictGet(target, key)
                     ELSE IF is_english THEN value ELSE M_EN \o value
         IN ApplyLeaves(Tail(master), target, is_english, DictSet(result, key, leaf))

RECURSIVE ApplySections(_, _, _, _)
ApplySections(master, target, is_english, result) ==
    IF master = <<>> THEN result
    ELSE LET key == Head(master).k
             value == Head(master).v
             target_value == DictGetDefault(target, key, <<>>)
         IN ApplySections(Tail(master), target, is_english,
                DictSet(result, key, ApplyLeaves(value, target_value, is_english, <<>>)))

\* _apply_master_structure(master, target, is_english) on a locale tree
ApplyMasterStructure(master, target, is_english) ==
    ApplySections(master, target, is_english, <<>>)

RECURSIVE MasterStructure(_, _, _)
\* step 1 of _synchronize_translation_keys: the keys of the files of languages
MasterStructure(dir, languages, all_keys_structure) ==
    IF languages = <<>> THEN all_keys_structure
    ELSE LET lang == Head(languages)
         IN MasterStructure(dir, Tail(languages),
                IF dir[lang].exists
                THEN MergeDictKeys(all_keys_structure, dir[lang].data, lang = "en")
                ELSE all_keys_structure)

\* _synchronize_translation_keys(languages): the locales directory after the call
QtSynchronizeResult(dir, languages) ==
    LET master == MasterStructure(dir, languages, <<>>)
    IN [l \in Langs |->
          IF l \in Range(languages)
          THEN File(ApplyMasterStructure(master, dir[l].data, l = "en"))
          ELSE dir[l]]

----------------------------------------------------------------------------
(* The classifier: I18nManager._is_user_facing *)

Alpha == Upper \cup Lower
AlNum == Alpha \cup Digits
HexDigits == Digits \cup {"a", "b", "c", "d", "e", "f", "A", "B", "C", "D", "E", "F"}
Brackets == {"{", "}", "[", "]", "(", ")"}

AllIn(s, S) == \A i \in 1..Len(s) : s[i] \in S

\* s.endswith(suffix)
EndsWith(s, suffix) ==
    Len(s) >= Len(suffix) /\ SubSeq(s, Len(s) - Len(suffix) + 1, Len(s)) = suffix

RECURSIVE LStrip(_)
LStrip(s) == IF s # <<>> /\ Head(s) \in Whitespace THEN LStrip(Tail(s)) ELSE s

RECURSIVE RStrip(_)
RStrip(s) ==
    IF s # <<>> /\ s[Len(s)] \in Whitespace THEN RStrip(SubSeq(s, 1, Len(s) - 1)) ELSE s

\* s.strip()
Strip(s) == RStrip(LStrip(s))

\* s.count(c), for a character c
CountChar(s, c) == Cardinality({i \in 1..Len(s) : s[i] = c})

\* sum(c.isalpha() for c in text)
AlphaChars(s) == Cardinality({i \in 1..Len(s) : s[i] \in Alpha})

\* s.index(c), for a character c of s
IndexOf(s, c) == CHOOSE i \in 1..Len(s) : s[i] = c /\ \A j \in 1..(i - 1) : s[j] # c

\* \d+
IsDigits(s) == s # <<>> /\ AllIn(s, Digits)

\* \d+\.\d+
IsDecimal(s) ==
    \E i \in 1..Len(s) :
        /\ s[i] = "."
        /\ IsDigits(SubSeq(s, 1, i - 1))
        /\ IsDigits(SubSeq(s, i + 1, Len(s)))

\* code_indicators of _is_user_facing, lowercased
CodeIndicators ==
    {<<"=", "=", "=">>, <<"!", "=", "=">>, <<"=", "=">>, <<"!", "=">>,
     <<"=", ">">>, <<"-", ">">>, <<".", ".", ".">>, <<"&", "&">>,
     <<"|", "|">>, <<"c", "a", "s", "e", " ">>,
     <<"d", "e", "f", "a", "u", "l", "t", ":">>,
     <<"s", "w", "i", "t", "c", "h">>, <<"i", "f", " ">>,
     <<"e", "l", "s", "e">>, <<"r", "e", "t", "u", "r", "n", " ">>,
     <<"c", "o", "n", "s", "t", " ">>, <<"l", "e", "t", " ">>,
     <<"v", "a", "r", " ">>, <<"f", "u", "n", "c", "t", "i", "o", "n">>,
     <<"a", "s", "y", "n", "c", " ">>, <<"a", "w", "a", "i", "t", " ">>,
     <<".", "m", "a", "p">>, <<".", "f", "i", "l", "t", "e", "r">>,
     <<".", "r", "e", "d", "u", "c", "e">>, <<".", "f", "i", "n", "d">>,
     <<".", "f", "o", "r", "e", "a", "c", "h">>, <<"?", ".">>, <<"?", "?">>,
     <<"i", "m", "p", "o", "r", "t", " ">>,
     <<"e", "x", "p", "o", "r", "t", " ">>, <<"f", "r", "o", "m", " ">>,
     <<"t", "y", "p", "e", "o", "f", " ">>,
     <<"i", "n", "s", "t", "a", "n", "c", "e", "o", "f", " ">>}

\* the keywords a text before a colon is compared with
ColonKeywords ==
    {<<"c", "a", "s", "e">>, <<"d", "e", "f", "a", "u", "l", "t">>,
     <<"s", "w", "i", "t", "c", "h">>, <<"t", "y", "p", "e">>,
     <<"i", "n", "t", "e", "r", "f", "a", "c", "e">>, <<"e", "n", "u", "m">>}

\* common_ui_words of _is_user_facing
CommonUiWords ==
    {<<"a", "b", "o", "u", "t">>, <<"a", "d", "d">>, <<"b", "a", "c", "k">>,
     <<"c", "a", "n", "c", "e", "l">>, <<"c", "l", "e", "a", "r">>,
     <<"c", "l", "o", "s", "e">>, <<"c", "o", "n", "f", "i", "r", "m">>,
     <<"c", "o", "p", "y">>, <<"c", "r", "e", "a", "t", "e">>,
     <<"c", "u", "t">>, <<"d", "e", "l", "e", "t", "e">>,
     <<"d", "o", "w", "n", "l", "o", "a", "d">>, <<"e", "d", "i", "t">>,
     <<"f", "i", "l", "t", "e", "r">>, <<"f", "o", "r", "w", "a", "r", "d">>,
     <<"h", "e", "l", "p">>, <<"h", "i", "d", "e">>, <<"h", "o", "m", "e">>,
     <<"l", "e", "s", "s">>, <<"l", "o", "a", "d", "i", "n", "g">>,
     <<"l", "o", "g", "i", "n">>, <<"l", "o", "g", "o", "u", "t">>,
     <<"m", "o", "r", "e">>, <<"n", "e", "w">>, <<"n", "e", "x", "t">>,
     <<"n", "o">>, <<"o", "k">>, <<"o", "p", "e", "n">>,
     <<"p", "a", "s", "t", "e">>, <<"p", "r", "e", "v", "i", "o", "u", "s">>,
     <<"r", "e", "f", "r", "e", "s", "h">>, <<"r", "e", "l", "o", "a", "d">>,
     <<"r", "e", "m", "o", "v", "e">>, <<"r", "e", "s", "e", "t">>,
     <<"s", "a", "v", "e">>, <<"s", "e", "a", "r", "c", "h">>,
     <<"s", "e", "n", "d">>, <<"s", "e", "t", "t", "i", "n", "g", "s">>,
     <<"s", "h", "o", "w">>, <<"s", "i", "g", "n", "u", "p">>,
     <<"s", "u", "b", "m", "i", "t">>, <<"u", "p", "d", "a", "t", "e">>,
     <<"u", "p", "l", "o", "a", "d">>, <<"v", "i", "e", "w">>,
     <<"y", "e", "s">>}

\* the one-character texts accepted besides letters (those of them in ASCII)
UiSymbols == {"?", "!", "+", "-"}

\* the alternations ^(...)$ of TECHNICAL_PATTERNS, lowercased (the patterns are
\* searched with re.IGNORECASE)
StatusWords ==
    {<<"p", "e", "n", "d", "i", "n", "g">>,
     <<"l", "o", "a", "d", "i", "n", "g">>,
     <<"s", "u", "c", "c", "e", "s", "s">>, <<"e", "r", "r", "o", "r">>,
     <<"w", "a", "r", "n", "i", "n", "g">>, <<"i", "n", "f", "o">>,
     <<"a", "c", "t", "i", "v", "e">>,
     <<"i", "n", "a", "c", "t", "i", "v", "e">>,
     <<"d", "i", "s", "a", "b", "l", "e", "d">>,
     <<"e", "n", "a", "b", "l", "e", "d">>}

WorkflowWords ==
    {<<"i", "n", "_", "p", "r", "o", "g", "r", "e", "s", "s">>,
     <<"c", "o", "m", "p", "l", "e", "t", "e", "d">>,
     <<"f", "a", "i", "l", "e", "d">>,
     <<"r", "e", "j", "e", "c", "t", "e", "d">>,
     <<"a", "p", "p", "r", "o", "v", "e", "d">>,
     <<"c", "a", "n", "c", "e", "l", "l", "e", "d">>,
     <<"d", "r", "a", "f", "t">>,
     <<"p", "u", "b", "l", "i", "s", "h", "e", "d">>}

VariantWords ==
    {<<"d", "e", "f", "a", "u", "l", "t">>,
     <<"p", "r", "i", "m", "a", "r", "y">>,
     <<"s", "e", "c", "o", "n", "d", "a", "r", "y">>,
     <<"t", "e", "r", "t", "i", "a", "r", "y">>,
     <<"d", "a", "n", "g", "e", "r">>, <<"s", "a", "f", "e">>,
     <<"n", "e", "u", "t", "r", "a", "l">>}

LiteralWords ==
    {<<"t", "r", "u", "e">>, <<"f", "a", "l", "s", "e">>,
     <<"n", "u", "l", "l">>, <<"u", "n", "d", "e", "f", "i", "n", "e", "d">>,
     <<"v", "o", "i", "d">>, <<"n", "a", "n">>}

DirectionWords ==
    {<<"a", "s", "c">>, <<"d", "e", "s", "c">>,
     <<"a", "s", "c", "e", "n", "d", "i", "n", "g">>,
     <<"d", "e", "s", "c", "e", "n", "d", "i", "n", "g">>,
     <<"l", "e", "f", "t">>, <<"r", "i", "g", "h", "t">>,
     <<"c", "e", "n", "t", "e", "r">>, <<"t", "o", "p">>,
     <<"b", "o", "t", "t", "o", "m">>, <<"m", "i", "d", "d", "l", "e">>}

CrudWords ==
    {<<"c", "r", "e", "a", "t", "e", "d">>,
     <<"u", "p", "d", "a", "t", "e", "d">>,
     <<"d", "e", "l", "e", "t", "e", "d">>,
     <<"m", "o", "d", "i", "f", "i", "e", "d">>, <<"r", "e", "a", "d">>,
     <<"w", "r", "i", "t", "e">>, <<"e", "x", "e", "c", "u", "t", "e">>}

MediaTypeWords ==
    {<<"j", "s", "o", "n">>, <<"x", "m", "l">>, <<"c", "s", "v">>,
     <<"h", "t", "m", "l">>, <<"t", "e", "x", "t">>,
     <<"i", "m", "a", "g", "e">>, <<"v", "i", "d", "e", "o">>,
     <<"a", "u", "d", "i", "o">>,
     <<"a", "p", "p", "l", "i", "c", "a", "t", "i", "o", "n">>}

HttpMethods ==
    {<<"g", "e", "t">>, <<"p", "o", "s", "t">>, <<"p", "u", "t">>,
     <<"d", "e", "l", "e", "t", "e">>, <<"p", "a", "t", "c", "h">>,
     <<"o", "p", "t", "i", "o", "n", "s">>, <<"h", "e", "a", "d">>,
     <<"c", "o", "n", "n", "e", "c", "t">>, <<"t", "r", "a", "c", "e">>}

ContentTypeWords ==
    {<<"a", "p", "p", "l", "i", "c", "a", "t", "i", "o", "n">>,
     <<"m", "u", "l", "t", "i", "p", "a", "r", "t">>,
     <<"f", "o", "r", "m", "-", "d", "a", "t", "a">>,
     <<"u", "r", "l", "e", "n", "c", "o", "d", "e", "d">>,
     <<"b", "o", "u", "n", "d", "a", "r", "y">>}

AuthSchemes ==
    {<<"b", "e", "a", "r", "e", "r">>, <<"b", "a", "s", "i", "c">>,
     <<"d", "i", "g", "e", "s", "t">>, <<"o", "a", "u", "t", "h">>}

CssValueWords ==
    {<<"a", "u", "t", "o">>, <<"i", "n", "h", "e", "r", "i", "t">>,
     <<"i", "n", "i", "t", "i", "a", "l">>, <<"u", "n", "s", "e", "t">>,
     <<"n", "o", "n", "e">>, <<"b", "l", "o", "c", "k">>,
     <<"i", "n", "l", "i", "n", "e">>, <<"f", "l", "e", "x">>,
     <<"g", "r", "i", "d">>, <<"h", "i", "d", "d", "e", "n">>,
     <<"v", "i", "s", "i", "b", "l", "e">>,
     <<"a", "b", "s", "o", "l", "u", "t", "e">>,
     <<"r", "e", "l", "a", "t", "i", "v", "e">>, <<"f", "i", "x", "e", "d">>,
     <<"s", "t", "i", "c", "k", "y">>, <<"s", "t", "a", "t", "i", "c">>}

CssUnitWords ==
    {<<"p", "x">>, <<"r", "e", "m">>, <<"e", "m">>, <<"v", "h">>,
     <<"v", "w">>, <<"%">>, <<"p", "t">>, <<"c", "m">>, <<"m", "m">>}

\* the prefixes of the CSS pattern ^(text|bg|...)-
CssPrefixes ==
    {<<"t", "e", "x", "t">>, <<"b", "g">>, <<"b", "o", "r", "d", "e", "r">>,
     <<"f", "l", "e", "x">>, <<"g", "r", "i", "d">>, <<"g", "a", "p">>,
     <<"p">>, <<"m">>, <<"w">>, <<"h">>,
     <<"r", "o", "u", "n", "d", "e", "d">>, <<"s", "h", "a", "d", "o", "w">>,
     <<"f", "o", "n", "t">>, <<"l", "e", "a", "d", "i", "n", "g">>,
     <<"t", "r", "a", "c", "k", "i", "n", "g">>, <<"s", "p", "a", "c", "e">>,
     <<"d", "i", "v", "i", "d", "e">>, <<"r", "i", "n", "g">>,
     <<"o", "u", "t", "l", "i", "n", "e">>, <<"c", "u", "r", "s", "o", "r">>,
     <<"p", "o", "i", "n", "t", "e", "r">>, <<"s", "e", "l", "e", "c", "t">>,
     <<"a", "p", "p", "e", "a", "r", "a", "n", "c", "e">>,
     <<"r", "e", "s", "i", "z", "e">>, <<"j", "u", "s", "t", "i", "f", "y">>,
     <<"i", "t", "e", "m", "s">>, <<"c", "o", "n", "t", "e", "n", "t">>,
     <<"s", "e", "l", "f">>, <<"o", "r", "d", "e", "r">>,
     <<"s", "h", "r", "i", "n", "k">>, <<"g", "r", "o", "w">>,
     <<"b", "a", "s", "i", "s">>}

\* the extensions of the pattern \.(jpg|...)$
FileExtensions ==
    {<<"j", "p", "g">>, <<"j", "p", "e", "g">>, <<"p", "n", "g">>,
     <<"g", "i", "f">>, <<"s", "v", "g">>, <<"w", "e", "b", "p">>,
     <<"i", "c", "o">>, <<"m", "p", "4">>, <<"m", "p", "3">>,
     <<"w", "a", "v">>, <<"p", "d", "f">>, <<"j", "s", "o", "n">>,
     <<"x", "m", "l">>, <<"c", "s", "v">>, <<"t", "s", "x">>,
     <<"j", "s", "x">>, <<"t", "s">>, <<"j", "s">>, <<"c", "s", "s">>,
     <<"s", "c", "s", "s">>, <<"s", "a", "s", "s">>, <<"l", "e", "s", "s">>,
     <<"h", "t", "m", "l">>, <<"m", "d">>, <<"t", "x", "t">>,
     <<"z", "i", "p">>, <<"t", "a", "r">>, <<"g", "z">>}

\* the units of the pattern ^\d+(\.\d+)?(px|...)$
CssUnits ==
    {<<"p", "x">>, <<"r", "e", "m">>, <<"e", "m">>, <<"v", "h">>,
     <<"v", "w">>, <<"%">>, <<"p", "t">>, <<"c", "m">>, <<"m", "m">>,
     <<"i", "n">>, <<"d", "e", "g">>, <<"r", "a", "d">>, <<"s">>,
     <<"m", "s">>}

\* ^[0-9a-f]{8}-[0-9a-f]{4}-[0-9a-f]{4}-[0-9a-f]{4}-[0-9a-f]{12}$
IsUuid(s) ==
    /\ Len(s) = 36
    /\ \A i \in 1..36 :
           IF i \in {9, 14, 19, 24} THEN s[i] = "-" ELSE s[i] \in HexDigits

\* any(re.search(pattern, text, re.IGNORECASE) for pattern in TECHNICAL_PATTERNS),
\* the patterns in the order of the list
MatchesTechnicalPattern(text) ==
    LET lower == StrLower(text)
    IN \/ text # <<>> /\ AllIn(text, Alpha \cup {"_"})
       \/ text # <<>> /\ Head(text) \in Alpha /\ AllIn(text, AlNum)
       \/ text # <<>> /\ Head(text) \in Alpha \cup {"_"} /\ AllIn(text, AlNum \cup {"_"})
       \/ lower \in StatusWords \cup WorkflowWords \cup VariantWords \cup LiteralWords
                      \cup DirectionWords \cup CrudWords
       \/ text # <<>> /\ Head(text) = "/" /\ AllIn(Tail(text), AlNum \cup {"/", "_", "-"})
       \/ StartsWith(text, <<".", "/">>) \/ Contains(text, <<".", ".", "/">>)
       \/ StartsWith(lower, <<"h", "t", "t", "p", ":", "/", "/">>)
       \/ StartsWith(lower, <<"h", "t", "t", "p", "s", ":", "/", "/">>)
       \/ StartsWith(lower, <<"w", "w", "w", ".">>)
       \/ Contains(lower, <<"c", "l", "a", "s", "s", "n", "a", "m", "e", "=">>)
       \/ \E w \in CssPrefixes : StartsWith(lower, w \o <<"-">>)
       \/ /\ Len(text) \in 4..9
          /\ Head(text) = "#"
          /\ AllIn(Tail(text), HexDigits)
       \/ StartsWith(lower, <<"r", "g", "b", "(">>)
       \/ StartsWith(lower, <<"r", "g", "b", "a", "(">>)
       \/ \E e \in FileExtensions : EndsWith(lower, <<".">> \o e)
       \/ lower \in MediaTypeWords
       \/ Contains(lower, <<"t", "(", "\"">>) \/ Contains(lower, <<"t", "(", "'">>)
       \/ Contains(lower, <<"i", "1", "8", "n", ".">>)
       \/ lower \in HttpMethods \cup ContentTypeWords \cup AuthSchemes \cup CssValueWords
       \/ \E u \in CssUnits :
              /\ EndsWith(lower, u)
              /\ LET number == SubSeq(lower, 1, Len(lower) - Len(u))
                 IN IsDigits(number) \/ IsDecimal(number)
       \/ lower \in CssUnitWords
       \/ IsDigits(text)
       \/ IsDecimal(text)
       \/ Len(text) >= 2 /\ AllIn(text, Alpha)
       \/ Contains(text, <<"$", "{">>)
       \/ Len(text) >= 8 /\ AllIn(text, HexDigits)
       \/ IsUuid(text)

\* re.search(r'[{}\[\]()].*[{}\[\]()]', text): two brackets on one line
BracketPair(text) ==
    \E i, j \in 1..Len(text) :
        /\ i < j
        /\ text[i] \in Brackets
        /\ text[j] \in Brackets
        /\ \A k \in (i + 1)..(j - 1) : text[k] # "\n"

\* I18nManager._is_user_facing(self, text), for a str
IsUserFacing(raw) ==
    LET text == Strip(raw)
        text_lower == StrLower(text)
        colon_rejects ==
            /\ Contains(text, <<":">>)
            /\ ~EndsWith(text, <<":">>)
            /\ StrLower(Strip(SubSeq(text, 1, IndexOf(text, ":") - 1))) \in ColonKeywords
        identifier ==
            /\ text # <<>>
            /\ Head(text) \in Lower \cup {"_"}
            /\ AllIn(text, Lower \cup Digits \cup {"_"})
    IN IF Len(text) < 1 \/ Len(text) > 500 THEN FALSE
       ELSE IF \E indicator \in CodeIndicators : Contains(text_lower, indicator) THEN FALSE
       ELSE IF CountChar(text, ":") > 1 THEN FALSE
       ELSE IF colon_rejects THEN FALSE
       ELSE IF identifier /\ text_lower \notin CommonUiWords THEN FALSE
       ELSE IF MatchesTechnicalPattern(text) THEN FALSE
       ELSE IF Len(text) = 1 THEN text[1] \in Alpha \cup UiSymbols
       ELSE IF Contains(text, <<" ">>)
            THEN IF 10 * AlphaChars(text) < 4 * Len(text) THEN FALSE
                 ELSE ~BracketPair(text)
       ELSE IF Head(text) \in Upper
            THEN 10 * AlphaChars(text) >= 7 * Len(text)
       ELSE FALSE

\* a call _is_user_facing(x): "True", "False", or the exception of text.strip()
\* for an x that is no str
Classify(x) ==
    IF x.shape # "str" THEN "AttributeError"
    ELSE IF IsUserFacing(x.text) THEN "True" ELSE "False"

----------------------------------------------------------------------------
(* Locale maintenance: validate_translations, remove_duplicate_keys_from_locales *)

RECURSIVE ReplaceAll(_, _, _)
\* s.replace(old, new), for a non-empty old
ReplaceAll(s, old, new) ==
    IF s = <<>> THEN <<>>
    ELSE IF StartsWith(s, old)
         THEN new \o ReplaceAll(SubSeq(s, Len(old) + 1, Len(s)), old, new)
         ELSE <<Head(s)>> \o ReplaceAll(Tail(s), old, new)

\* a normalization that leaves the pending marker in the value
CleanValueKeepMarker(v) == Join(<<" ">>, Split(Strip(v)))

\* clean_value = v.replace('[SRC] ', '').strip()
\* clean_value = ' '.join(clean_value.split())
CleanValue(v) == Join(<<" ">>, Split(Strip(ReplaceAll(v, M_SRC, <<>>))))

RECURSIVE FlattenSections(_)
\* the leaves of a locale tree in the order process_dict meets them, each with
\* its section and key
FlattenSections(data) ==
    IF data = <<>> THEN <<>>
    ELSE [i \in 1..Len(Head(data).v) |->
             [section |-> Head(data).k, key |-> Head(data).v[i].k, v |-> Head(data).v[i].v]]
         \o FlattenSections(Tail(data))

RECURSIVE ProcessDict(_, _, _)
\* process_dict(data): the (d, k) pairs of keys_to_remove, as <<section, key>>
ProcessDict(leaves, seen_values, keys_to_remove) ==
    IF leaves = <<>> THEN keys_to_remove
    ELSE LET clean_value == CleanValue(Head(leaves).v)
         IN IF clean_value \in seen_values
            THEN ProcessDict(Tail(leaves), seen_values,
                             Append(keys_to_remove, <<Head(leaves).section, Head(leaves).key>>))
            ELSE ProcessDict(Tail(leaves), seen_values \cup {clean_value}, keys_to_remove)

\* del d[key]
DictDel(d, key) == SelectSeq(d, LAMBDA e : e.k # key)

RECURSIVE DeleteKeys(_, _)
\* for parent_dict, key in keys_to_remove: del parent_dict[key]
DeleteKeys(data, keys_to_remove) ==
    IF keys_to_remove = <<>> THEN data
    ELSE LET section == Head(keys_to_remove)[1]
             key == Head(keys_to_remove)[2]
         IN DeleteKeys(DictSet(data, section, DictDel(DictGet(data, section), key)),
                       Tail(keys_to_remove))

\* data = {k: v for k, v in data.items() if v}
DropEmpty(data) == SelectSeq(data, LAMBDA e : e.v # <<>>)

\* the body of the loop of remove_duplicate_keys_from_locales for one file
RemoveDuplicateKeys(data) ==
    LET keys_to_remove == ProcessDict(FlattenSections(data), {}, <<>>)
    IN [data |-> DropEmpty(DeleteKeys(data, keys_to_remove)),
        removed |-> Len(keys_to_remove)]

RECURSIVE SumOver(_, _)
SumOver(f, S) ==
    IF S = {} THEN 0
    ELSE LET x == CHOOSE y \in S : TRUE IN f[x] + SumOver(f, S \ {x})

\* remove_duplicate_keys_from_locales: the locales directory after the call and
\* total_removed
RemoveDuplicateKeysFromLocalesResult(dir) ==
    [dir |-> [l \in Langs |->
                 IF dir[l].exists THEN File(RemoveDuplicateKeys(dir[l].data).data)
                 ELSE dir[l]],
     total_removed |->
         SumOver([l \in Langs |->
                     IF dir[l].exists THEN RemoveDuplicateKeys(dir[l].data).removed ELSE 0],
                 Langs)]

RECURSIVE FindMissingLeaves(_, _, _)
\* _find_missing_keys on a section: the else branch for each key
FindMissingLeaves(source, target, full_key) ==
    IF source = <<>> THEN <<>>
    ELSE LET key == Head(source).k
         IN (IF ~DictHas(target, key) \/ StartsWith(DictGet(target, key), M_EN)
             THEN <<<<full_key, key>>>> ELSE <<>>)
            \o FindMissingLeaves(Tail(source), target, full_key)

RECURSIVE FindMissingKeys(_, _)
\* _find_missing_keys(source, target) on a locale tree: the full keys, each as
\* <<section, key>>
FindMissingKeys(source, target) ==
    IF source = <<>> THEN <<>>
    ELSE LET key == Head(source).k
             target_value == DictGetDefault(target, key, <<>>)
         IN FindMissingLeaves(Head(source).v, target_value, key)
            \o FindMissingKeys(Tail(source), target)

\* _count_keys(data)
CountKeys(data) == Len(FlattenSections(data))

\* validate_translations: the dict it returns, one entry for every file that is
\* not the base file
ValidateTranslationsResult(dir, base_lang) ==
    IF ~dir[base_lang].exists
    THEN [called |-> TRUE, error |-> TRUE, results |-> {}]
    ELSE [called |-> TRUE, error |-> FALSE,
          results |-> {[lang |-> l,
                        missing |-> FindMissingKeys(dir[base_lang].data, dir[l].data),
                        total |-> CountKeys(dir[base_lang].data)] :
                       l \in {x \in Langs \ {base_lang} : dir[x].exists}}]

----------------------------------------------------------------------------
(* Candidate lists of the key generator specification *)

MaxCandidates == 3
MaxGenRuns == 2

T_Ab_c == <<"A", "b", " ", "c">>
T_Ab_d == <<"A", "b", " ", "d">>
T_Ab_b == <<"A", "b", " ", "b">>
T_Ab__b == <<"A", "b", " ", " ", "b">>
T_bb_cc == <<"b", "b", " ", "c", "c">>
T_bb_dd == <<"b", "b", " ", "d", "d">>

Texts == {T_Ab_c, T_Ab_d, T_Ab_b, T_Ab__b, T_bb_cc, T_bb_dd}

F_home == <<"h", "o", "m", "e", "/", "A", ".", "t", "s", "x">>
F_Login == <<"L", "o", "g", "i", "n", ".", "t", "s", "x">>

\* where a candidate was found: the file, and the name of the pattern that
\* matched there (SAFE_CONTEXTS of the Flet edition, _scan_file of the Qt edition)
Sites(ed) == {[file |-> F_home, context |-> "jsx_text"],
              [file |-> F_Login, context |-> IF ed = "qt" THEN "title_attr" ELSE "jsx_attr"]}

\* the dicts _scan_file builds (the line number, which nothing reads, left out)
Candidates(ed) ==
    {[text |-> t, file |-> s.file, context |-> s.context] : t \in Texts, s \in Sites(ed)}

RECURSIVE ListsUpTo(_, _)
ListsUpTo(S, n) ==
    IF n = 0 THEN {<<>>}
    ELSE LET shorter == ListsUpTo(S, n - 1)
         IN shorter \cup {Append(l, x) : l \in {m \in shorter : Len(m) = n - 1}, x \in S}

\* s.strip() = s
IsStripped(s) == s # <<>> /\ Head(s) \notin Whitespace /\ s[Len(s)] \notin Whitespace

\* What detect_hardcoded_text returns: texts that are stripped and pass
\* _is_user_facing; in the Qt edition no text twice for one file (seen_texts).
CandidateLists(ed) ==
    {l \in ListsUpTo(Candidates(ed), MaxCandidates) :
        /\ \A i \in 1..Len(l) : IsStripped(l[i].text)
        /\ ed = "qt" =>
               \A i, j \in 1..Len(l) :
                   (i # j /\ l[i].file = l[j].file) => l[i].text # l[j].text}

Editions == {"modern", "qt"}

\* Path(filepath).name
PathName(filepath) ==
    LET slashes == {i \in 1..Len(filepath) : filepath[i] = "/"}
    IN IF slashes = {} THEN filepath
       ELSE LET last == CHOOSE i \in slashes : \A j \in slashes : j <= i
            IN SubSeq(filepath, last + 1, Len(filepath))

\* replace_in_source_code is not running
RpIdle == [running |-> FALSE, phase |-> "copy", files_map |-> <<>>]

F_nav == <<"n", "a", "v", "/", "A", ".", "t", "s", "x">>

Paths == {F_home, F_nav, F_Login}

BackupNames == {PathName(f) : f \in Paths}

\* no source files in view, no replace run
NoReplace ==
    /\ src_files = [f \in Paths |-> <<>>]
    /\ backup_dir = [n \in BackupNames |-> NoFile]
    /\ rp = RpIdle
    /\ rewrites = <<>>
    /\ copy_failed = <<>>
    /\ replace_runs = 0

\* no call of the classifier in view
NoClassify ==
    /\ clf_input = [shape |-> "str", kind |-> "empty", text |-> <<>>]
    /\ clf_result = "none"

\* validate_translations and remove_duplicate_keys_from_locales not called yet
NotValidated == [called |-> FALSE, error |-> FALSE, results |-> {}]
NotRemoved == [called |-> FALSE, total_removed |-> 0, before |-> [l \in Langs |-> NoFile]]

\* no call of the validation or of the duplicate removal in view
NoMaintain ==
    /\ validation = NotValidated
    /\ removal = NotRemoved

\* manager.src_dir and manager.locales_dir before any selection
NoDir == [project |-> "", name |-> ""]

NoEvent == [op |-> "none", arg |-> "", checked |-> FALSE, report |-> ""]

\* the window as main() builds it, no worker started
NoUi ==
    /\ project_path = ""
    /\ src_dir = NoDir
    /\ has_i18n_setup = FALSE
    /\ locales_dir = NoDir
    /\ project_selected = FALSE
    /\ busy = FALSE
    /\ last_event = NoEvent
    /\ workers = <<>>

NotScanned == [above |-> <<>>, visited |-> {}]

\* no call of detect_hardcoded_text in view
NoScan == scan = NotScanned

InitGen ==
    /\ edition \in Editions
    /\ detected_strings \in CandidateLists(edition)
    /\ generated_keys = <<>>
    /\ gen_runs = 0
    /\ prev_generated = <<>>
    /\ locales = [l \in Langs |-> NoFile]
    /\ source_language = "en"
    /\ selected_languages = <<"en">>
    /\ tr = Idle
    /\ sync_streak = 0
    /\ provider_log = {}
    /\ NoReplace
    /\ NoClassify
    /\ NoMaintain
    /\ NoUi
    /\ NoScan

\* run_generate's worker: manager.generated_keys = generate_translation_keys(...)
Generate ==
    /\ detected_strings # <<>>
    /\ gen_runs < MaxGenRuns
    /\ generated_keys' =
           IF edition = "modern"
           THEN GenerateTranslationKeys(generated_keys, detected_strings)
           ELSE QtGenerateTranslationKeys(generated_keys, detected_strings)
    /\ prev_generated' = generated_keys
    /\ gen_runs' = gen_runs + 1
    /\ UNCHANGED <<edition, detected_strings, localeVars, replaceVars, clfVars, maintVars, uiVars, scanVars>>

\* run_detect's worker after the last literal was removed from the source:
\* manager.detected_strings = strings, the mapping of the earlier run stays
DetectAfterEdit ==
    /\ gen_runs >= 1
    /\ Len(detected_strings) >= 2
    /\ detected_strings' = SubSeq(detected_strings, 1, Len(detected_strings) - 1)
    /\ gen_runs' = 0
    /\ prev_generated' = <<>>
    /\ UNCHANGED <<edition, generated_keys, localeVars, replaceVars, clfVars, maintVars, uiVars, scanVars>>

NextGen == Generate \/ DetectAfterEdit

SpecGen == InitGen /\ [][NextGen]_vars

----------------------------------------------------------------------------
(* Locale store specification *)

MaxSyncStreak == 2

K_ab == <<"a", "b">>

\* the keys and source texts of the locale files of the project
LocaleTexts == <<[k |-> K_ab, v |-> T_Ab_c], [k |-> TextLiteral, v |-> T_bb_cc]>>

\* what a leaf for a source text may hold on disk: the text, the text marked as
\* pending, or a translation of it
LeafValues(text, ed) == {text, MarkerOf(ed) \o text, ProviderOutput(text)}

\* the sections over the keys of LocaleTexts (translate_to_languages and the
\* synchronizers put the keys in other orders)
SectionDicts(ed) ==
    LET one(i) == {<<[k |-> LocaleTexts[i].k, v |-> x]>> : x \in LeafValues(LocaleTexts[i].v, ed)}
    IN {<<>>} \cup one(1) \cup one(2) \cup {a \o b : a \in one(1), b \in one(2)}

InitTrees(ed) == {<<>>} \cup {<<[k |-> S_home, v |-> d]>> : d \in SectionDicts(ed)}

InitFiles(ed) == {NoFile} \cup {File(t) : t \in InitTrees(ed)}

\* on_folder_selected: 'en' when en.json is there, else the first code in sorted
\* order that has a file, else the default
InferredSourceLanguage(dir) ==
    IF dir["en"].exists THEN "en"
    ELSE IF dir["de"].exists THEN "de"
    ELSE IF dir["nl"].exists THEN "nl"
    ELSE "en"

C_Ab_c == [text |-> T_Ab_c, file |-> F_home, context |-> "jsx_text"]
C_bb_cc == [text |-> T_bb_cc, file |-> F_home, context |-> "jsx_text"]

\* the key mappings handed to translate_to_languages: the literal C_Ab_c is new in
\* the source, the key of C_bb_cc is in the locale files from an earlier run
LocaleKeyMappings == {GenerateTranslationKeys(<<>>, <<C_Ab_c>>)}

\* selected_languages of the Flet edition: holds the source language; the user
\* checks no other target than nl
LanguageLists(src) ==
    {l \in {<<"de">>, <<"en">>, <<"nl">>, <<"de", "nl">>, <<"en", "nl">>} : src \in Range(l)}

\* selected_languages of the Qt edition: ['en'], then the checked languages
QtLanguageLists == {<<"en">>, <<"en", "nl">>, <<"en", "de">>, <<"en", "nl", "de">>}

\* the leaves of data that start with marker
PendingKeys(data, marker) == {fq \in FQKeys(data) : StartsWith(Leaf(data, fq), marker)}

InitLocale ==
    /\ edition \in Editions
    /\ locales \in [Langs -> InitFiles(edition)]
    /\ locales["de"] = NoFile
    /\ source_language = IF edition = "modern" THEN InferredSourceLanguage(locales) ELSE "en"
    /\ selected_languages = <<"en">>
    /\ tr = Idle
    /\ sync_streak = 0
    /\ provider_log = {}
    /\ NoReplace
    /\ NoClassify
    /\ NoMaintain
    /\ NoUi
    /\ NoScan
    /\ detected_strings = <<>>
    /\ generated_keys = <<>>
    /\ gen_runs = 0
    /\ prev_generated = <<>>

\* on_source_language_change
SetSourceLanguage(new_lang) ==
    /\ edition = "modern"
    /\ ~tr.running
    /\ new_lang # source_language
    /\ source_language' = new_lang
    /\ sync_streak' = 0
    /\ UNCHANGED <<edition, genVars, locales, selected_languages, tr, provider_log, replaceVars, clfVars, maintVars, uiVars, scanVars>>

\* run_sync's worker: manager.sync_translation_keys()
SyncTranslationKeys ==
    /\ edition = "modern"
    /\ ~tr.running
    /\ sync_streak < MaxSyncStreak
    /\ locales' = SyncTranslationKeysResult(locales, source_language)
    /\ sync_streak' = sync_streak + 1
    /\ UNCHANGED <<edition, genVars, source_language, selected_languages, tr, provider_log,
                   replaceVars, clfVars, maintVars, uiVars, scanVars>>

\* translate_to_languages, up to the end of its first loop (the files are written)
TranslateWriteKeys(keys_mapping, languages) ==
    /\ edition = "modern"
    /\ ~tr.running
    /\ locales' = WriteKeysResult(locales, keys_mapping, languages, source_language)
    /\ tr' = [running |-> TRUE, keys_mapping |-> keys_mapping, languages |-> languages,
              source_lang |-> source_language]
    /\ sync_streak' = 0
    /\ provider_log' = {}
    /\ UNCHANGED <<edition, genVars, source_language, selected_languages, replaceVars, clfVars, maintVars, uiVars, scanVars>>

\* translate_to_languages, its second loop: _translate_file for every target
TranslateFill ==
    /\ tr.running
    /\ \E fails \in [Langs -> SUBSET FQKeys(<<[k |-> S_home, v |-> LocaleTexts]>>)] :
          /\ \A l \in Langs :
                fails[l] \subseteq
                    IF l \in Range(tr.languages) /\ l # tr.source_lang
                    THEN PendingKeys(locales[l].data, M_SRC) ELSE {}
          /\ locales' = TranslateFillResult(locales, tr.languages, tr.source_lang, fails)
          /\ provider_log' = ProviderCalls(locales, tr.languages, tr.source_lang, fails)
    /\ tr' = Idle
    /\ UNCHANGED <<edition, genVars, source_language, selected_languages, sync_streak, replaceVars, clfVars, maintVars, uiVars, scanVars>>

\* I18nManagerQt.update_selected_languages: ['en'], then the checked languages
QtUpdateSelectedLanguages(languages) ==
    /\ edition = "qt"
    /\ languages # selected_languages
    /\ selected_languages' = languages
    /\ sync_streak' = 0
    /\ UNCHANGED <<edition, genVars, locales, source_language, tr, provider_log, replaceVars, clfVars, maintVars, uiVars, scanVars>>

\* I18nManagerQt._synchronize_translation_keys(self.selected_languages)
QtSynchronize ==
    /\ edition = "qt"
    /\ sync_streak < MaxSyncStreak
    /\ locales' = QtSynchronizeResult(locales, selected_languages)
    /\ sync_streak' = sync_streak + 1
    /\ UNCHANGED <<edition, genVars, source_language, selected_languages, tr, provider_log,
                   replaceVars, clfVars, maintVars, uiVars, scanVars>>

NextLocale ==
    \/ \E l \in Langs : SetSourceLanguage(l)
    \/ SyncTranslationKeys
    \/ \E m \in LocaleKeyMappings : \E ls \in LanguageLists(source_language) :
           TranslateWriteKeys(m, ls)
    \/ TranslateFill
    \/ \E ls \in QtLanguageLists : QtUpdateSelectedLanguages(ls)
    \/ QtSynchronize

SpecLocale == InitLocale /\ [][NextLocale]_vars

----------------------------------------------------------------------------
(* Source rewriter *)

\* The content of a source file is a sequence of fragments [kind, arg]:
\*   react_import   import React from 'react';\n
\*   i18n_import    import { useTranslation } from 'react-i18next';\n
\*   blank          \n
\*   react_import_multi   import React, {\n  useState\n} from 'react';\n
\*   component      export default function A() {
\*   component_typed   export default function A(): JSX.Element {
\*   hook           \n  const { t } = useTranslation();\n
\*   jsx_text       >arg<
\*   jsx_text_padded   >\n    arg\n  <   (the text on a line of its own)
\*   title_attr     title="arg"
\*   class_attr     className="arg"
\*   assign         label = "arg"   (a plain assignment)
\*   obj_prop       label: "arg"
\*   t_jsx          >{t("arg")}<
\*   t_title        title={t("arg")}
\*   t_class        className={t("arg")}
\*   t_assign       label={t("arg")}
Frag(kind, arg) == [kind |-> kind, arg |-> arg]

\* import_line of _add_i18n_import
ImportLine == Frag("i18n_import", <<>>)

\* hook_line of _add_i18n_import
HookLine == Frag("hook", <<>>)

HasKind(content, kinds) == \E i \in 1..Len(content) : content[i].kind \in kinds

\* 'useTranslation' in content
HasUseTranslation(content) == HasKind(content, {"i18n_import", "hook"})

\* the end of the first match of a one-fragment pattern, 0 without a match
FirstOfKind(content, kind) ==
    IF HasKind(content, {kind})
    THEN CHOOSE i \in 1..Len(content) :
             /\ content[i].kind = kind
             /\ \A j \in 1..(i - 1) : content[j].kind # kind
    ELSE 0

\* content[:pos] + frags + content[pos:]
InsertAt(content, pos, frags) ==
    SubSeq(content, 1, pos) \o frags \o SubSeq(content, pos + 1, Len(content))

\* 'from "react"' in content or "from 'react'" in content
HasReactImport(content) == HasKind(content, {"react_import", "react_import_multi"})

\* the second half of _add_i18n_import: the hook line after the first match of
\* component_pattern, which a signature with a return type does not match
AddHook(imported) ==
    LET match == FirstOfKind(imported, "component")
    IN IF ~HasKind(imported, {"hook"}) /\ match > 0
       THEN InsertAt(imported, match, <<HookLine>>)
       ELSE imported

\* I18nManager._add_i18n_import(self, content): the substring test finds a react
\* import of any layout, the re.sub only one on a single line ('.' matches no
\* newline), and a re.sub without a match returns content as it is
AddI18nImport(content) ==
    LET react == FirstOfKind(content, "react_import")
        imported == IF HasReactImport(content)
                    THEN IF react > 0 THEN InsertAt(content, react, <<ImportLine>>)
                         ELSE content
                    ELSE <<ImportLine, Frag("blank", <<>>)>> \o content
    IN AddHook(imported)

\* I18nManagerQt._add_i18n_import(self, content): re.search of the single-line
\* import pattern decides between the place after the match and the top
QtAddI18nImport(content) ==
    LET match == FirstOfKind(content, "react_import")
        imported == IF match > 0
                    THEN InsertAt(content, match, <<ImportLine>>)
                    ELSE <<ImportLine, Frag("blank", <<>>)>> \o content
    IN AddHook(imported)

\* re.sub of a pattern that matches the fragments of one kind holding text
SubFrag(content, kind, text, new_kind, key) ==
    [i \in 1..Len(content) |->
        IF content[i] = Frag(kind, text) THEN Frag(new_kind, key) ELSE content[i]]

\* the fragments ([a-zA-Z0-9_-]+)\s*=\s*["']text["'] matches: a name, =, a quoted text
NameEqualsQuoted == {"title_attr", "class_attr", "assign"}

\* r'\1={t("' + key + r'")}' put for such a fragment
WrappedKind(kind) ==
    IF kind = "title_attr" THEN "t_title"
    ELSE IF kind = "class_attr" THEN "t_class"
    ELSE "t_assign"

\* re.sub(pattern, replacement, content) of the jsx_attr branch
SubNameEqualsQuoted(content, text, key) ==
    [i \in 1..Len(content) |->
        IF content[i].kind \in NameEqualsQuoted /\ content[i].arg = text
        THEN Frag(WrappedKind(content[i].kind), key)
        ELSE content[i]]

\* I18nManager._apply_replacement(self, content, text, key, context), for the
\* contexts of the candidates
ApplyReplacement(content, text, key, context) ==
    IF context = "jsx_attr" THEN SubNameEqualsQuoted(content, text, key)
    ELSE IF context = "jsx_text" THEN SubFrag(content, "jsx_text", text, "t_jsx", key)
    ELSE content

\* I18nManagerQt._apply_replacement: 'jsx_text', the context _scan_file gives a
\* JSX text, is no key of its replacements table
QtApplyReplacement(content, text, key, context) ==
    IF context = "title_attr" THEN SubFrag(content, "title_attr", text, "t_title", key)
    ELSE content

\* for repl in replacements: modified_content = self._apply_replacement(...)
RECURSIVE ApplyReplacements(_, _, _)
ApplyReplacements(ed, modified_content, replacements) ==
    IF replacements = <<>> THEN modified_content
    ELSE LET repl == Head(replacements)
             next == IF ed = "modern"
                     THEN ApplyReplacement(modified_content, repl.text, repl.key,
                                           repl.context)
                     ELSE QtApplyReplacement(modified_content, repl.text, repl.key,
                                             repl.context)
         IN ApplyReplacements(ed, next, Tail(replacements))

\* modified_content of replace_in_source_code when it reaches the write
ModifiedContent(ed, content, replacements) ==
    ApplyReplacements(ed,
                      IF HasUseTranslation(content) THEN content
                      ELSE IF ed = "modern" THEN AddI18nImport(content)
                      ELSE QtAddI18nImport(content),
                      replacements)

\* files_map of replace_in_source_code: file -> its replacements, in the order of
\* the files' first entries in keys_mapping
RECURSIVE FilesMapLoop(_, _)
FilesMapLoop(items, files_map) ==
    IF items = <<>> THEN files_map
    ELSE LET full_key == Head(items).k
             info == Head(items).v
             repl == [key |-> full_key, text |-> info.text, context |-> info.context]
         IN FilesMapLoop(Tail(items),
                DictSet(files_map, info.file,
                        Append(DictGetDefault(files_map, info.file, <<>>), repl)))

FilesMap(keys_mapping) == FilesMapLoop(keys_mapping, <<>>)

\* shutil.copy2(filepath, backup_dir / filepath.name)
Copy2(dir, filepath, content) == [dir EXCEPT ![PathName(filepath)] = File(content)]

\* a copy2 that raised, taken for one that returned
AfterCopySwallow(run, ok) == [run EXCEPT !.phase = "write"]

\* after shutil.copy2: on to read_text and write_text; an exception of copy2
\* leaves replace_in_source_code, and the worker of run_replace reports it
AfterCopy(run, ok) == IF ok THEN [run EXCEPT !.phase = "write"] ELSE RpIdle

\* after write_text: the next item of files_map.items(), or the return
AfterWrite(run) ==
    IF Len(run.files_map) = 1 THEN RpIdle
    ELSE [run EXCEPT !.phase = "copy", !.files_map = Tail(run.files_map)]

MaxReplaceCandidates == 3
MaxReplaceRuns == 2

AttrContext(ed) == IF ed = "qt" THEN "title_attr" ELSE "jsx_attr"

\* what detect_hardcoded_text finds in the three files
ReplaceCandidates(ed) ==
    {[text |-> T_Ab_c, file |-> F_home, context |-> "jsx_text"],
     [text |-> T_Ab_d, file |-> F_home, context |-> "jsx_text"],
     [text |-> T_Ab_d, file |-> F_nav, context |-> "jsx_text"],
     [text |-> T_Ab_b, file |-> F_Login, context |-> AttrContext(ed)]}

\* the candidates of one file follow each other, none twice
ReplaceCandidateLists(ed) ==
    {l \in ListsUpTo(ReplaceCandidates(ed), MaxReplaceCandidates) :
        /\ l # <<>>
        /\ \A i, j \in 1..Len(l) : i # j => l[i] # l[j]
        /\ \A i, j, k \in 1..Len(l) :
               (i < j /\ j < k /\ l[i].file = l[k].file) => l[j].file = l[i].file}

InitContents(f) ==
    IF f = F_home
    THEN {<<Frag("react_import", <<>>), Frag("component", <<>>),
            Frag("jsx_text", T_Ab_c), Frag("jsx_text", T_Ab_d)>>,
          <<ImportLine, Frag("component", <<>>), HookLine,
            Frag("jsx_text", T_Ab_c), Frag("jsx_text", T_Ab_d)>>,
          <<Frag("obj_prop", T_Ab_c), Frag("component", <<>>),
            Frag("jsx_text", T_Ab_c), Frag("jsx_text", T_Ab_d)>>}
    ELSE IF f = F_nav
    THEN {<<Frag("component", <<>>), Frag("jsx_text", T_Ab_d)>>,
          <<Frag("react_import", <<>>), Frag("jsx_text", T_Ab_d)>>,
          <<Frag("react_import_multi", <<>>), Frag("component", <<>>),
            Frag("jsx_text", T_Ab_d)>>,
          <<Frag("react_import", <<>>), Frag("component_typed", <<>>),
            Frag("jsx_text", T_Ab_d)>>,
          <<Frag("component", <<>>), Frag("jsx_text_padded", T_Ab_d)>>}
    ELSE {<<Frag("component", <<>>), Frag("title_attr", T_Ab_b)>>,
          <<ImportLine, Frag("component", <<>>), HookLine,
            Frag("title_attr", T_Ab_b)>>,
          <<Frag("component", <<>>), Frag("class_attr", T_Ab_b),
            Frag("title_attr", T_Ab_b)>>,
          <<Frag("assign", T_Ab_b), Frag("obj_prop", T_Ab_b), Frag("component", <<>>),
            Frag("title_attr", T_Ab_b)>>}

\* the project after detection and key generation
InitReplace ==
    /\ edition \in Editions
    /\ detected_strings \in ReplaceCandidateLists(edition)
    /\ generated_keys =
           IF edition = "modern"
           THEN GenerateTranslationKeys(<<>>, detected_strings)
           ELSE QtGenerateTranslationKeys(<<>>, detected_strings)
    /\ gen_runs = 1
    /\ prev_generated = <<>>
    /\ locales = [l \in Langs |-> NoFile]
    /\ source_language = "en"
    /\ selected_languages = <<"en">>
    /\ tr = Idle
    /\ sync_streak = 0
    /\ provider_log = {}
    /\ src_files \in [Paths -> UNION {InitContents(f) : f \in Paths}]
    /\ \A f \in Paths : src_files[f] \in InitContents(f)
    /\ backup_dir = [n \in BackupNames |-> NoFile]
    /\ rp = RpIdle
    /\ rewrites = <<>>
    /\ copy_failed = <<>>
    /\ replace_runs = 0
    /\ NoClassify
    /\ NoMaintain
    /\ NoUi
    /\ NoScan

\* run_replace, and replace_in_source_code up to its loop over files_map
ReplaceStart ==
    /\ ~rp.running
    /\ generated_keys # <<>>
    /\ replace_runs < MaxReplaceRuns
    /\ backup_dir' = [n \in BackupNames |-> NoFile]
    /\ rp' = [running |-> TRUE, phase |-> "copy", files_map |-> FilesMap(generated_keys)]
    /\ rewrites' = <<>>
    /\ copy_failed' = <<>>
    /\ replace_runs' = replace_runs + 1
    /\ UNCHANGED <<edition, genVars, localeVars, src_files, clfVars, maintVars, uiVars, scanVars>>

\* shutil.copy2(filepath, backup_dir / filepath.name): it returns, or it raises
CopyToBackup ==
    /\ rp.running
    /\ rp.phase = "copy"
    /\ \E ok \in BOOLEAN :
           LET filepath == rp.files_map[1].k
           IN /\ backup_dir' = IF ok THEN Copy2(backup_dir, filepath, src_files[filepath])
                               ELSE backup_dir
              /\ copy_failed' =
                     IF ok THEN copy_failed
                     ELSE Append(copy_failed,
                                 [file |-> filepath, before |-> src_files[filepath]])
              /\ rp' = AfterCopy(rp, ok)
    /\ UNCHANGED <<edition, genVars, localeVars, src_files, rewrites, replace_runs, clfVars, maintVars, uiVars, scanVars>>

\* read_text, _add_i18n_import, the replacements and write_text; the Qt edition
\* writes only a content that changed
RewriteFile ==
    /\ rp.running
    /\ rp.phase = "write"
    /\ LET filepath == rp.files_map[1].k
           content == src_files[filepath]
           modified_content == ModifiedContent(edition, content, rp.files_map[1].v)
           writes == edition = "modern" \/ modified_content # content
       IN /\ src_files' = IF writes THEN [src_files EXCEPT ![filepath] = modified_content]
                          ELSE src_files
          /\ rewrites' = IF writes
                         THEN Append(rewrites, [file |-> filepath, before |-> content])
                         ELSE rewrites
    /\ rp' = AfterWrite(rp)
    /\ UNCHANGED <<edition, genVars, localeVars, backup_dir, copy_failed, replace_runs, clfVars, maintVars, uiVars, scanVars>>

NextReplace == ReplaceStart \/ CopyToBackup \/ RewriteFile

SpecReplace == InitReplace /\ [][NextReplace]_vars

----------------------------------------------------------------------------
(* Locale maintenance specification *)

T_Ab__c == <<"A", "b", " ", " ", "c">>

\* the section of home/A.tsx: the keys of LocaleTexts, the first one as text, as
\* pending text or translated
MaintHomeDicts ==
    {d \in SectionDicts("modern") :
        /\ d # <<>>
        /\ DictHas(d, TextLiteral) => DictGet(d, TextLiteral) = T_bb_cc}

\* the section of Login.tsx: one key, generated in a later run for a literal
\* that also stands in home/A.tsx, as text, as pending text, or with the
\* whitespace of the markup
MaintAuthDicts == {<<[k |-> K_ab, v |-> x]>> : x \in {T_Ab_c, M_SRC \o T_Ab_c, T_Ab__c}}

MaintTrees ==
    {<<>>}
    \cup {<<[k |-> S_home, v |-> h]>> : h \in MaintHomeDicts}
    \cup {<<[k |-> S_auth, v |-> a]>> : a \in MaintAuthDicts}
    \cup {<<[k |-> S_home, v |-> h], [k |-> S_auth, v |-> a]>> :
            h \in MaintHomeDicts, a \in MaintAuthDicts}

MaintFiles == {NoFile} \cup {File(t) : t \in MaintTrees}

InitMaintain ==
    /\ edition = "modern"
    /\ locales \in [Langs -> MaintFiles]
    /\ locales["de"] = NoFile
    /\ source_language = InferredSourceLanguage(locales)
    /\ selected_languages = <<"en">>
    /\ tr = Idle
    /\ sync_streak = 0
    /\ provider_log = {}
    /\ NoReplace
    /\ NoClassify
    /\ NoMaintain
    /\ NoUi
    /\ NoScan
    /\ detected_strings = <<>>
    /\ generated_keys = <<>>
    /\ gen_runs = 0
    /\ prev_generated = <<>>

\* run_validate's worker: manager.validate_translations()
ValidateTranslations ==
    /\ edition = "modern"
    /\ ~tr.running
    /\ validation' = ValidateTranslationsResult(locales, source_language)
    /\ UNCHANGED <<edition, genVars, localeVars, replaceVars, clfVars, removal, uiVars, scanVars>>

\* manager.remove_duplicate_keys_from_locales()
RemoveDuplicateKeysFromLocales ==
    /\ edition = "modern"
    /\ ~tr.running
    /\ LET r == RemoveDuplicateKeysFromLocalesResult(locales)
       IN /\ locales' = r.dir
          /\ removal' = [called |-> TRUE, total_removed |-> r.total_removed,
                         before |-> locales]
    /\ sync_streak' = 0
    /\ UNCHANGED <<edition, genVars, source_language, selected_languages, tr, provider_log,
                   replaceVars, clfVars, validation, uiVars, scanVars>>

NextMaintain ==
    \/ SyncTranslationKeys
    \/ ValidateTranslations
    \/ RemoveDuplicateKeysFromLocales

SpecMaintain == InitMaintain /\ [][NextMaintain]_vars

----------------------------------------------------------------------------
(* The classifier specification: calls of _is_user_facing *)

MaxCssClasses == 2
MaxSentenceWords == 3

\* Tailwind utility classes
CssTokens ==
    {<<"f", "l", "e", "x">>, <<"p", "-", "4">>, <<"m", "t", "-", "2">>,
     <<"i", "t", "e", "m", "s", "-", "c", "e", "n", "t", "e", "r">>,
     <<"t", "e", "x", "t", "-", "l", "g">>, <<"w", "-", "f", "u", "l", "l">>,
     <<"m", "x", "-", "a", "u", "t", "o">>}

\* class strings as they stand in a className attribute
CssClassStrings ==
    {Join(<<" ">>, l) : l \in ListsUpTo(CssTokens, MaxCssClasses) \ {<<>>}}

HexColors ==
    {<<"#", "f", "f", "f">>, <<"#", "F", "F", "F">>,
     <<"#", "1", "a", "2", "b", "3", "c">>, <<"#", "a", "b", "c", "d">>,
     <<"#", "1", "2", "3", "4", "5", "6", "7", "8">>}

FilePaths ==
    {<<"/", "s", "r", "c", "/", "a", "p", "p", ".", "t", "s", "x">>,
     <<".", "/", "a", "/", "b">>, <<".", ".", "/", "x">>,
     <<"s", "r", "c", "/", "a", "p", "p">>,
     <<"s", "r", "c", "/", "c", "o", "m", "p", "o", "n", "e", "n", "t", "s", "/", "B", "u", "t", "t", "o", "n", ".", "t", "s", "x">>,
     <<"/", "u", "s", "r", "/", "b", "i", "n">>,
     <<"a", "s", "s", "e", "t", "s", "/", "l", "o", "g", "o", ".", "p", "n", "g">>,
     <<"D", "o", "c", "s", "/", "G", "u", "i", "d", "e">>}

\* lookup calls that are already wrapped
WrappedCalls ==
    {<<"t", "(", "\"", "k", "e", "y", "\"", ")">>,
     <<"t", "(", "'", "a", ".", "b", "'", ")">>,
     <<"{", "t", "(", "\"", "h", "o", "m", "e", ".", "a", "b", "\"", ")", "}">>,
     <<"t", "(", "\"", "a", " ", "b", "\"", ")">>}

SentenceFirstWords ==
    {<<"I", "f">>, <<"Y", "o", "u">>, <<"A", "g", "r", "e", "e">>,
     <<"R", "e", "t", "u", "r", "n">>, <<"H", "o", "m", "e">>,
     <<"P", "l", "e", "a", "s", "e">>}

SentenceWords ==
    {<<"i", "f">>, <<"y", "o", "u">>, <<"a", "g", "r", "e", "e">>,
     <<"r", "e", "t", "u", "r", "n">>, <<"h", "o", "m", "e">>,
     <<"p", "l", "e", "a", "s", "e">>}

\* sentences of two to MaxSentenceWords ordinary English words, all letters
Sentences ==
    {Join(<<" ">>, <<a>> \o l) :
        a \in SentenceFirstWords,
        l \in ListsUpTo(SentenceWords, MaxSentenceWords - 1) \ {<<>>}}

CapitalizedWords ==
    {<<"W", "e", "l", "c", "o", "m", "e">>, <<"S", "u", "b", "m", "i", "t">>,
     <<"H", "o", "m", "e">>, <<"Y", "e", "s">>}

StrInput(kind, text) == [shape |-> "str", kind |-> kind, text |-> text]

\* the arguments of the calls: strs of the families above, the empty str, and
\* objects that are no str
ClassifierInputs ==
    {StrInput("css", t) : t \in CssClassStrings}
    \cup {StrInput("hex", t) : t \in HexColors}
    \cup {StrInput("path", t) : t \in FilePaths}
    \cup {StrInput("wrapped", t) : t \in WrappedCalls}
    \cup {StrInput("sentence", t) : t \in Sentences}
    \cup {StrInput("allowlist", t) : t \in CommonUiWords}
    \cup {StrInput("capitalized", t) : t \in CapitalizedWords}
    \cup {StrInput("empty", <<>>)}
    \cup {[shape |-> sh, kind |-> "nonstring", text |-> <<>>] : sh \in {"None", "int", "list"}}

InitClassify ==
    /\ edition = "modern"
    /\ detected_strings = <<>>
    /\ generated_keys = <<>>
    /\ gen_runs = 0
    /\ prev_generated = <<>>
    /\ locales = [l \in Langs |-> NoFile]
    /\ source_language = "en"
    /\ selected_languages = <<"en">>
    /\ tr = Idle
    /\ sync_streak = 0
    /\ provider_log = {}
    /\ NoReplace
    /\ NoMaintain
    /\ NoUi
    /\ NoScan
    /\ clf_input \in ClassifierInputs
    /\ clf_result = "none"

\* a call self._is_user_facing(clf_input)
CallIsUserFacing ==
    /\ clf_result = "none"
    /\ clf_result' = Classify(clf_input)
    /\ UNCHANGED <<edition, genVars, localeVars, replaceVars, clf_input, maintVars, uiVars, scanVars>>

NextClassify == CallIsUserFacing

SpecClassify == InitClassify /\ [][NextClassify]_vars

----------------------------------------------------------------------------
(* Key generator: properties *)

\* the candidates before position i of d with the section and base name of d[i]
Rank(d, i) ==
    Cardinality({j \in 1..(i - 1) :
        /\ DetermineSection(d[j].file) = DetermineSection(d[i].file)
        /\ KeyBase(d[j].text) = KeyBase(d[i].text)})

\* C8: generate_translation_keys gives every deduplicated candidate its own
\* fully-qualified key: the mapping has one entry per deduplicated candidate, in
\* list order, no key twice, and the candidate that is the n-th (n >= 1) after the
\* first with its section and base key name is named base followed by n.
C8_CollisionResolution ==
    (edition = "modern" /\ gen_runs >= 1) =>
        LET d == DeduplicateStrings(detected_strings)
        IN /\ Len(generated_keys) = Len(d)
           /\ \A i, j \in 1..Len(generated_keys) :
                  i # j => generated_keys[i].k # generated_keys[j].k
           /\ \A i \in 1..Len(d) :
                  LET e == generated_keys[i].v
                      base == KeyBase(d[i].text)
                  IN /\ e.text = d[i].text
                     /\ e.file = d[i].file
                     /\ e.section = DetermineSection(d[i].file)
                     /\ e.key_name = IF Rank(d, i) = 0 THEN base
                                     ELSE base \o Str(Rank(d, i))
                     /\ generated_keys[i].k = FullKey(e.section, e.key_name)

\* three distinct candidates of one section with one base name got base, base1, base2
C8_Witness ==
    /\ edition = "modern"
    /\ gen_runs >= 1
    /\ \E i \in 1..Len(generated_keys) :
           /\ Rank(DeduplicateStrings(detected_strings), i) = 2
           /\ generated_keys[i].v.key_name = KeyBase(generated_keys[i].v.text) \o <<"2">>

\* the first position of strings that holds the normalized text of strings[i]
FirstOccurrence(strings, i) ==
    CHOOSE j \in 1..i :
        /\ Normalize(strings[j].text) = Normalize(strings[i].text)
        /\ \A m \in 1..(j - 1) : Normalize(strings[m].text) # Normalize(strings[i].text)

\* C9: for candidates with one normalized text that come from different files,
\* generate_translation_keys produces exactly one key for that text, and its entry
\* is the first occurrence in list order.
C9_Deduplication ==
    gen_runs >= 1 =>
        \A i, j \in 1..Len(detected_strings) :
          (/\ Normalize(detected_strings[i].text) = Normalize(detected_strings[j].text)
           /\ detected_strings[i].file # detected_strings[j].file) =>
            LET n == Normalize(detected_strings[i].text)
                hits == {m \in 1..Len(generated_keys) :
                            Normalize(generated_keys[m].v.text) = n}
                first == detected_strings[FirstOccurrence(detected_strings, i)]
            IN /\ Cardinality(hits) = 1
               /\ \A m \in hits : /\ generated_keys[m].v.text = first.text
                                  /\ generated_keys[m].v.file = first.file
                                  /\ generated_keys[m].v.context = first.context

----------------------------------------------------------------------------
(* Locale store: properties *)

\* the step is a call of the synchronizer
SyncStep == sync_streak' = sync_streak + 1

\* the step is the key-writing loop of translate_to_languages
KeyWritingStep == ~tr.running /\ tr'.running

\* the language files of the locales directory
ExistingLangs == {l \in Langs : locales[l].exists}

\* C1: after sync_translation_keys, the set of fully-qualified keys is identical
\* in every language file of the locales directory.
C1_StructuralParity ==
    (edition = "modern" /\ sync_streak >= 1) =>
        \A l1, l2 \in ExistingLangs :
            FQKeys(locales[l1].data) = FQKeys(locales[l2].data)

\* C2: every fully-qualified key a language file has before sync_translation_keys
\* it still has afterwards.
C2_SyncNeverRemovesKeys ==
    [][(edition = "modern" /\ SyncStep) =>
          \A l \in ExistingLangs :
              FQKeys(locales[l].data) \subseteq FQKeys(locales'[l].data)]_vars

\* C3: a leaf without the pending marker before the key-writing loop of
\* translate_to_languages, or before sync_translation_keys, holds the same value
\* after it.
C3_NoClobber ==
    [][(edition = "modern" /\ (KeyWritingStep \/ SyncStep)) =>
          \A l \in ExistingLangs :
              \A fq \in FQKeys(locales[l].data) :
                  ~StartsWith(Leaf(locales[l].data, fq), M_SRC) =>
                      /\ fq \in FQKeys(locales'[l].data)
                      /\ Leaf(locales'[l].data, fq) = Leaf(locales[l].data, fq)]_vars

\* C4: a call of the synchronizer that directly follows another call of it leaves
\* every language file as the first call left it (keys, key order and values).
C4_SyncIdempotent ==
    [][(sync_streak >= 1 /\ SyncStep) => locales' = locales]_vars

\* two calls in a row of the Flet edition's synchronizer, the source-language file
\* there and a pending leaf in another file
C4_Witness ==
    /\ edition = "modern"
    /\ sync_streak = 2
    /\ locales[source_language].exists
    /\ \E l \in ExistingLangs \ {source_language} :
           PendingKeys(locales[l].data, M_SRC) # {}

----------------------------------------------------------------------------
(* Source rewriter: properties *)

\* the step writes file f
WritesFile(f) ==
    \/ src_files'[f] # src_files[f]
    \/ /\ Len(rewrites') = Len(rewrites) + 1
       /\ rewrites'[Len(rewrites')].file = f

\* dir holds, under the file name of f, a copy with the given content
HoldsCopy(dir, f, content) == dir[PathName(f)] = File(content)

\* the files of the run whose copy2 raised
FailedFiles == {copy_failed[i].file : i \in 1..Len(copy_failed)}

\* the files the run wrote
RewrittenFiles == {rewrites[i].file : i \in 1..Len(rewrites)}

\* a call of replace_in_source_code is over
RunOver == replace_runs >= 1 /\ ~rp.running

\* C5: when replace_in_source_code writes a file, the run's backup directory
\* already holds a copy of the content the file has before the write; and a file
\* whose backup copy failed keeps the content it had at the failure.
C5_BackupBeforeMutate ==
    [][/\ \A f \in Paths :
              WritesFile(f) => HoldsCopy(backup_dir, f, src_files[f])
       /\ \A i \in 1..Len(copy_failed') :
              src_files'[copy_failed'[i].file] = copy_failed'[i].before]_vars

\* a run of the Flet edition that rewrote a file, and in which the backup copy of
\* a later file failed
C5_Witness ==
    /\ edition = "modern"
    /\ Len(rewrites) >= 1
    /\ src_files[rewrites[1].file] # rewrites[1].before
    /\ Len(copy_failed) = 1

\* C6: when a call of replace_in_source_code is over, every file of the key
\* mapping but those whose backup copy failed has been backed up and rewritten.
C6_FailedBackupSkipsThatFileOnly ==
    (edition = "modern" /\ RunOver) =>
        \A f \in DictKeys(FilesMap(generated_keys)) \ FailedFiles :
            f \in RewrittenFiles

\* C7: when a call of replace_in_source_code is over, the backup directory of the
\* run holds, for every file the run rewrote, a copy of the content the file had
\* before the rewrite.
C7_BackupHoldsEveryRewrittenFile ==
    RunOver =>
        \A i \in 1..Len(rewrites) :
            HoldsCopy(backup_dir, rewrites[i].file, rewrites[i].before)

\* the step is the translation pass (the second loop) of translate_to_languages
FillStep == tr.running /\ ~tr'.running

\* the targets of the call in progress: languages without the source language
Targets == Range(tr.languages) \ {tr.source_lang}

\* C11: a leaf the key-writing loop wrote to a target file as marker + s is
\* handed to the provider as exactly s; after the call returned the leaf is the
\* provider's output, without the marker, and after it raised the leaf is as it
\* was; leaves without the marker are unchanged by the translation pass.
C11_MarkerRoundTrip ==
    [][FillStep =>
          \A l \in Targets :
              /\ \A i \in 1..Len(tr.keys_mapping) :
                     LET fq == SplitKey(tr.keys_mapping[i].k)
                         s == tr.keys_mapping[i].v.text
                     IN /\ Leaf(locales[l].data, fq) = M_SRC \o s
                        /\ \E c \in provider_log' :
                               c.lang = l /\ c.key = fq /\ c.text = s
              /\ FQKeys(locales'[l].data) = FQKeys(locales[l].data)
              /\ \A fq \in FQKeys(locales[l].data) :
                     LET before == Leaf(locales[l].data, fq)
                         after == Leaf(locales'[l].data, fq)
                     IN IF StartsWith(before, M_SRC)
                        THEN \E c \in provider_log' :
                                 /\ c.lang = l /\ c.key = fq
                                 /\ IF c.raised THEN after = before
                                    ELSE /\ after = ProviderOutput(c.text)
                                         /\ ~StartsWith(after, M_SRC)
                        ELSE after = before]_vars

\* a translation pass is over in which the provider returned for a leaf the key
\* writing had written, and the leaf is the provider's output
C11_Witness ==
    /\ ~tr.running
    /\ \E c \in provider_log :
           /\ ~c.raised
           /\ c.key = <<S_home, K_ab>>
           /\ c.text = T_Ab_c
           /\ Leaf(locales[c.lang].data, c.key) = ProviderOutput(T_Ab_c)

\* C12: in the translation pass every pending leaf of a target file is handed to
\* the provider; a leaf whose call raised keeps its value, marker included, and
\* every leaf whose call returned is written as the provider's output.
C12_LeafFailureIsPartial ==
    [][FillStep =>
          \A l \in Targets :
              \A fq \in PendingKeys(locales[l].data, M_SRC) :
                  \E c \in provider_log' :
                      /\ c.lang = l
                      /\ c.key = fq
                      /\ c.raised =>
                             /\ Leaf(locales'[l].data, fq) = Leaf(locales[l].data, fq)
                             /\ StartsWith(Leaf(locales'[l].data, fq), M_SRC)
                      /\ ~c.raised =>
                             Leaf(locales'[l].data, fq) = ProviderOutput(c.text)]_vars

\* a translation pass is over in which, for one file, the provider raised for a
\* leaf, which is still pending, and returned for another, which is translated
C12_Witness ==
    /\ ~tr.running
    /\ \E c1, c2 \in provider_log :
           /\ c1.lang = c2.lang
           /\ c1.raised
           /\ ~c2.raised
           /\ StartsWith(Leaf(locales[c1.lang].data, c1.key), M_SRC)
           /\ Leaf(locales[c2.lang].data, c2.key) = ProviderOutput(c2.text)

\* C13: the text handed to the translation provider never begins with the pending
\* marker, and no leaf of a language file carries the marker twice.
C13_MarkerNeverTranslated ==
    /\ \A c \in provider_log : ~StartsWith(c.text, M_SRC)
    /\ \A l \in ExistingLangs :
           \A fq \in FQKeys(locales[l].data) :
               ~StartsWith(Leaf(locales[l].data, fq),
                           MarkerOf(edition) \o MarkerOf(edition))

\* the string literals of a file in positions no candidate is detected in: object
\* properties, className attributes, plain assignments
OtherLiterals(content) ==
    LET other(frag) == frag.kind \in {"obj_prop", "class_attr", "assign"}
    IN SelectSeq(content, other)

\* C14: a rewrite of the Flet edition leaves every string literal in another
\* position of the file (an object property, a className attribute, a plain
\* assignment) as it was, also one equal to the text of a candidate.
C14_RewritePrecision ==
    [][edition = "modern" =>
          \A f \in Paths : OtherLiterals(src_files'[f]) = OtherLiterals(src_files[f])]_vars

----------------------------------------------------------------------------
(* Classifier: properties *)

Classified == clf_result # "none"

\* C15: the classifier returns False for a CSS utility-class string, a hex
\* color, a file path and an already wrapped t("...") call.
C15_RejectsTechnicalStrings ==
    Classified /\ clf_input.kind \in {"css", "hex", "path", "wrapped"}
        => clf_result = "False"

\* C16: the classifier returns True for every multi-word sentence of at most
\* 500 characters that is mostly letters, whichever ordinary English words it
\* is made of.
C16_AcceptsSentences ==
    Classified /\ clf_input.kind = "sentence" => clf_result = "True"

\* C17: the classifier returns True for every word of its allow-list of UI
\* words and for a single capitalized word of letters only.
C17_AcceptsUiWords ==
    Classified /\ clf_input.kind \in {"allowlist", "capitalized"}
        => clf_result = "True"

\* C18: the classifier is total: a call never raises, and it returns False for
\* None, for an object that is no str and for the empty string.
C18_ClassifierTotal ==
    Classified =>
        /\ clf_result \in {"True", "False"}
        /\ clf_input.kind \in {"nonstring", "empty"} => clf_result = "False"

----------------------------------------------------------------------------
(* Locale maintenance: properties *)

ValidateStep == validation' # validation

\* the keys of the tree base that target lacks or holds with the pending marker
AbsentOrPending(base, target) ==
    {fq \in FQKeys(base) : fq \notin FQKeys(target) \/ StartsWith(Leaf(target, fq), M_SRC)}

\* C19: validation reports, for each language file but that of the source
\* language, exactly the keys of the source tree that the language's tree lacks
\* and the keys it holds with the pending marker the tool writes.
C19_ValidationReport ==
    [][ValidateStep /\ ~validation'.error =>
          /\ {r.lang : r \in validation'.results}
                 = {l \in Langs \ {source_language} : locales[l].exists}
          /\ \A r \in validation'.results :
                /\ Range(r.missing)
                       = AbsentOrPending(locales[source_language].data, locales[r.lang].data)
                /\ Len(r.missing) = Cardinality(Range(r.missing))]_vars

RECURSIVE Unmarked(_)
\* a leaf value without the pending markers it starts with
Unmarked(v) ==
    IF StartsWith(v, M_SRC) THEN Unmarked(SubSeq(v, Len(M_SRC) + 1, Len(v))) ELSE v

\* the normalized value of a leaf: the pending marker stripped, the whitespace
\* collapsed
NormalizedValue(v) == Normalize(Unmarked(v))

\* the keys of a tree whose normalized value no key met before them has
FirstOfGroup(data) ==
    LET leaves == FlattenSections(data)
    IN {<<leaves[i].section, leaves[i].key>> :
           i \in {n \in 1..Len(leaves) :
                    \A m \in 1..(n - 1) :
                       NormalizedValue(leaves[m].v) # NormalizedValue(leaves[n].v)}}

\* the keys of the files of dir that are not the first of their group
DuplicateKeys(dir) ==
    UNION {{<<l, fq>> : fq \in FQKeys(dir[l].data) \ FirstOfGroup(dir[l].data)} :
             l \in {x \in Langs : dir[x].exists}}

RemoveStep == removal' # removal

\* C20: remove_duplicate_keys_from_locales, in each language file, deletes the
\* keys whose normalized value an earlier key of the file has, keeps the first
\* key of each group and the keys with a unique value as they are, leaves no
\* empty section, and returns the number of deleted keys; a second call
\* deletes nothing.
C20_DuplicateRemoval ==
    [][RemoveStep =>
          /\ \A l \in Langs :
                IF ~locales[l].exists THEN locales'[l] = locales[l]
                ELSE /\ locales'[l].exists
                     /\ FQKeys(locales'[l].data) = FirstOfGroup(locales[l].data)
                     /\ \A fq \in FirstOfGroup(locales[l].data) :
                           Leaf(locales'[l].data, fq) = Leaf(locales[l].data, fq)
                     /\ \A i \in 1..Len(locales'[l].data) : locales'[l].data[i].v # <<>>
          /\ removal'.total_removed = Cardinality(DuplicateKeys(locales))
          /\ RemoveDuplicateKeysFromLocalesResult(locales').total_removed = 0
          /\ RemoveDuplicateKeysFromLocalesResult(locales').dir = locales']_vars

\* a call has deleted a key whose value differs from that of the key kept for
\* it, has emptied and pruned the section auth of a file, and has kept a key
C20_Witness ==
    /\ removal.called
    /\ removal.total_removed > 0
    /\ \E l \in Langs :
          LET data == removal.before[l].data
          IN /\ removal.before[l].exists
             /\ DictHas(data, S_auth)
             /\ \A fq \in FirstOfGroup(data) : fq[1] # S_auth
             /\ FirstOfGroup(data) # {}
             /\ \E fq \in FQKeys(data) \ FirstOfGroup(data) :
                   \A kept \in FirstOfGroup(data) : Leaf(data, kept) # Leaf(data, fq)

\* the files of dir hold the same fully-qualified keys
SameKeySets(dir) ==
    \A l1, l2 \in {l \in Langs : dir[l].exists} : FQKeys(dir[l1].data) = FQKeys(dir[l2].data)

\* C26: when all language trees have the same keys before
\* remove_duplicate_keys_from_locales, they have the same keys after it.
C26_RemovalKeepsParity ==
    [][RemoveStep /\ SameKeySets(locales) => SameKeySets(locales')]_vars

----------------------------------------------------------------------------
(* Source rewriter: import and hook injection *)

CountKind(content, kinds) ==
    Cardinality({i \in 1..Len(content) : content[i].kind \in kinds})

\* the import line stands right after a react import
ImportAfterReact(content) ==
    \E i \in 2..Len(content) :
        /\ content[i] = ImportLine
        /\ content[i - 1].kind \in {"react_import", "react_import_multi"}

Signatures == {"component", "component_typed"}

\* the hook line is the first thing in the body of the first component signature
HookInFirstBody(content) ==
    \E i \in 1..(Len(content) - 1) :
        /\ content[i].kind \in Signatures
        /\ \A j \in 1..(i - 1) : content[j].kind \notin Signatures
        /\ content[i + 1] = HookLine

\* what the import and hook injection owes to a file, before -> after
InjectionDone(before, after) ==
    IF HasUseTranslation(before)
    THEN /\ CountKind(after, {"i18n_import"}) = CountKind(before, {"i18n_import"})
         /\ CountKind(after, {"hook"}) = CountKind(before, {"hook"})
    ELSE /\ CountKind(after, {"i18n_import"}) = 1
         /\ IF HasReactImport(before) THEN ImportAfterReact(after)
            ELSE after[1] = ImportLine
         /\ HasKind(before, Signatures) => HookInFirstBody(after)

\* a step of replace_in_source_code that reads, rewrites and writes a file
RewriteStep == rp.running /\ rp.phase = "write" /\ rp' # rp

\* C24: a file without useTranslation rewritten by the Flet edition holds the
\* import line exactly once, after the react import when there is one (whatever
\* its layout) and else at the top, and the hook line first in the body of its
\* first export-default-function signature; a file with useTranslation gets
\* neither.
C24_ImportAndHookInjection ==
    [][RewriteStep /\ edition = "modern" =>
          LET filepath == rp.files_map[1].k
          IN InjectionDone(src_files[filepath], src_files'[filepath])]_vars

\* none of the replacement patterns of the file's candidates matches in content
NoPatternMatches(ed, content, replacements) ==
    ApplyReplacements(ed, content, replacements) = content

\* C28: replace_in_source_code leaves the content of a file as it was when none
\* of the replacement patterns of its candidates matches in it: no import line
\* and no hook line is added to a file in which nothing was replaced.
C28_UnmatchedFileUnchanged ==
    [][RewriteStep =>
          LET filepath == rp.files_map[1].k
          IN NoPatternMatches(edition, src_files[filepath], rp.files_map[1].v)
                 => src_files'[filepath] = src_files[filepath]]_vars

----------------------------------------------------------------------------
(* Source rewriter: context tags *)

\* the keys of SAFE_CONTEXTS, the context tags I18nManager._scan_file gives
ScanContexts == {"jsx_text", "jsx_attr"}

\* the contexts I18nManager._apply_replacement has a branch or a table entry for
RuleContexts == {"jsx_text", "jsx_attr", "obj_property"}

\* the context tags I18nManagerQt._scan_file gives: object_<name>, 'jsx_text',
\* <attr>_attr and <prop>_prop
QtScanContexts ==
    {"object_title", "object_description", "object_text", "object_label",
     "object_name", "object_heading", "object_content", "object_message",
     "object_value"}
    \cup {"jsx_text"}
    \cup {"title_attr", "alt_attr", "placeholder_attr", "aria-label_attr"}
    \cup {"text_prop", "label_prop", "heading_prop", "subtitle_prop", "description_prop"}

\* the keys of the replacements table of I18nManagerQt._apply_replacement
QtRuleContexts ==
    {"jsx_text_node", "jsx_text_lowercase",
     "title_attr", "alt_attr", "placeholder_attr", "aria_label",
     "text_prop", "label_prop", "heading_prop", "title_prop", "subtitle_prop",
     "description_prop", "content_prop", "message_prop", "value_prop", "name_prop",
     "label_text", "button_text", "link_text", "span_text", "div_text", "p_text",
     "h1_text", "h2_text", "h3_text", "h4_text", "li_text",
     "object_title", "object_description", "object_text", "object_label",
     "object_name", "object_heading", "object_content", "object_message",
     "object_value", "template_literal"}

ScanContextsOf(ed) == IF ed = "modern" THEN ScanContexts ELSE QtScanContexts

RuleContextsOf(ed) == IF ed = "modern" THEN RuleContexts ELSE QtRuleContexts

\* C27: every context tag the file scanner of the edition can give a candidate
\* has a replacement rule in the _apply_replacement of that edition, and so has
\* the context of every candidate that received a key.
C27_ContextsHaveRules ==
    /\ ScanContextsOf(edition) \subseteq RuleContextsOf(edition)
    /\ \A i \in 1..Len(generated_keys) :
           /\ generated_keys[i].v.context \in ScanContextsOf(edition)
           /\ generated_keys[i].v.context \in RuleContextsOf(edition)

----------------------------------------------------------------------------
(* Detection specification: which files a scan visits, and their sections *)

\* the directory names detect_hardcoded_text excludes
ExcludedParts ==
    {<<"n", "o", "d", "e", "_", "m", "o", "d", "u", "l", "e", "s">>,
     <<"d", "i", "s", "t">>,
     <<"b", "u", "i", "l", "d">>,
     <<".", "g", "i", "t">>,
     <<"i", "1", "8", "n">>}

D_TS == <<".", "d", ".", "t", "s">>

\* the name of the source root on_folder_selected found
SourceRootName == <<"s", "r", "c">>

\* f.parts of the file source_dir.rglob yields: the parts of source_dir, then
\* those below it (the root '/' left out)
FileParts(above, rel) == above \o <<SourceRootName>> \o rel

\* str(filepath)
PathStr(path_parts) == <<"/">> \o Join(<<"/">>, path_parts)

\* the filter of detect_hardcoded_text: any(ex in f.parts ...) or
\* f.name.endswith('.d.ts')
Excluded(path_parts) ==
    \/ \E ex \in ExcludedParts : ex \in Range(path_parts)
    \/ EndsWith(path_parts[Len(path_parts)], D_TS)

\* where the project lies: the directories from the root down to the project
AboveDirs ==
    {<<<<"s", "r", "v">>, <<"w", "e", "b">>>>,
     <<<<"h", "o", "m", "e">>, <<"u">>, <<"w", "e", "b">>>>,
     <<<<"s", "r", "v">>, <<"b", "u", "i", "l", "d">>, <<"w", "e", "b">>>>,
     <<<<"s", "r", "v">>, <<"f", "o", "r", "m", "s">>, <<"w", "e", "b">>>>,
     <<<<"U", "s", "e", "r", "s">>, <<"u">>, <<"d", "i", "s", "t">>, <<"w", "e", "b">>>>}

\* the files below the source root, as parts relative to it
RelFiles ==
    {<<<<"A", "p", "p", ".", "t", "s", "x">>>>,
     <<<<"n", "a", "v">>, <<"B", "a", "r", ".", "t", "s", "x">>>>,
     <<<<"a", "u", "t", "h">>, <<"L", "o", "g", "i", "n", ".", "t", "s", "x">>>>,
     <<<<"p", "a", "g", "e", "s">>, <<"H", "o", "m", "e", ".", "t", "s", "x">>>>,
     <<<<"d", "i", "s", "t">>, <<"x", ".", "j", "s">>>>,
     <<<<"i", "1", "8", "n">>, <<"i", "n", "d", "e", "x", ".", "t", "s">>>>,
     <<<<"t", "y", "p", "e", "s", ".", "d", ".", "t", "s">>>>}

InitDetect ==
    /\ edition = "modern"
    /\ detected_strings = <<>>
    /\ generated_keys = <<>>
    /\ gen_runs = 0
    /\ prev_generated = <<>>
    /\ locales = [l \in Langs |-> NoFile]
    /\ source_language = "en"
    /\ selected_languages = <<"en">>
    /\ tr = Idle
    /\ sync_streak = 0
    /\ provider_log = {}
    /\ NoReplace
    /\ NoClassify
    /\ NoMaintain
    /\ NoUi
    /\ scan \in {[above |-> a, visited |-> {}] : a \in AboveDirs}

\* detect_hardcoded_text and generate_translation_keys on one file of the
\* rglob: the filter drops it, or its findings get the section of its path
VisitFile(rel) ==
    /\ rel \notin {v.rel : v \in scan.visited}
    /\ LET path_parts == FileParts(scan.above, rel)
           skipped == Excluded(path_parts)
       IN scan' = [scan EXCEPT !.visited = @ \cup
                      {[rel |-> rel, skipped |-> skipped,
                        section |-> IF skipped THEN <<>>
                                    ELSE DetermineSection(PathStr(path_parts))]}]
    /\ UNCHANGED <<edition, genVars, localeVars, replaceVars, clfVars, maintVars, uiVars>>

NextDetect == \E rel \in RelFiles : VisitFile(rel)

SpecDetect == InitDetect /\ [][NextDetect]_vars

\* a directory between the source root and the file has an excluded name, or
\* the file ends in .d.ts
ExcludedBelowRoot(rel) ==
    \/ \E i \in 1..(Len(rel) - 1) : rel[i] \in ExcludedParts
    \/ EndsWith(rel[Len(rel)], D_TS)

\* C30: a scan skips a file exactly when a directory between the source root
\* and the file is named node_modules, dist, build, .git or i18n or the file
\* ends in .d.ts, and the section of a file is the first table keyword found in
\* its path relative to the source root (common without one), whatever the
\* directories above the source root are called.
C30_RelativePathDecides ==
    \A v \in scan.visited :
        /\ v.skipped <=> ExcludedBelowRoot(v.rel)
        /\ ~v.skipped => v.section = DetermineSection(Join(<<"/">>, v.rel))

----------------------------------------------------------------------------
(* Project selection and language controls of the Flet window *)

\* the folders the user can select; what lies in them does not change
Projects == {"P1", "P2", "P3", "P4", "P5"}

\* for src_name in ['src', 'app', 'client', 'frontend']
SrcNames == <<"src", "app", "client", "frontend">>

\* the directories of SrcNames that exist directly under the project
ProjectDirs(p) ==
    CASE p = "P1" -> {"src"}
      [] p = "P2" -> {"app", "client"}
      [] p = "P3" -> {}
      [] p = "P4" -> {"src", "frontend"}
      [] p = "P5" -> {"src"}
      [] OTHER -> {}

\* <dir>/i18n of a source directory: whether config.ts and locales exist, and
\* the stems of the *.json files of locales
I18nDir(dir) ==
    CASE dir = [project |-> "P1", name |-> "src"] ->
             [config |-> TRUE, locales |-> TRUE, stems |-> {"en", "nl"}]
      [] dir = [project |-> "P4", name |-> "src"] ->
             [config |-> TRUE, locales |-> TRUE, stems |-> {"nl", "de"}]
      [] dir = [project |-> "P5", name |-> "src"] ->
             [config |-> TRUE, locales |-> TRUE, stems |-> {}]
      [] dir = [project |-> "P4", name |-> "frontend"] ->
             [config |-> FALSE, locales |-> TRUE, stems |-> {"en"}]
      [] OTHER -> [config |-> FALSE, locales |-> FALSE, stems |-> {}]

\* the loop of on_folder_selected over SrcNames: the first name that exists
\* under the project, "" when the loop ends without a break
FirstSrcName(p) ==
    LET hits == {i \in 1..Len(SrcNames) : SrcNames[i] \in ProjectDirs(p)}
    IN IF hits = {} THEN "" ELSE SrcNames[CHOOSE i \in hits : \A j \in hits : i <= j]

\* sorted(set(inferred_codes))
SortedLangs(codes) ==
    LET in_codes(l) == l \in codes
    IN SelectSeq(<<"de", "en", "nl">>, in_codes)

\* selected_languages.remove(lang)
ListRemove(list, lang) ==
    LET first == CHOOSE i \in 1..Len(list) :
                     list[i] = lang /\ \A j \in 1..(i - 1) : list[j] # lang
    IN SubSeq(list, 1, first - 1) \o SubSeq(list, first + 1, Len(list))

\* refresh_language_controls without its first two lines
RefreshKeepsList(selected, source) == selected

\* refresh_language_controls: what it leaves in selected_languages
RefreshLanguageControls(selected, source) ==
    IF source \notin Range(selected) THEN Append(selected, source) ELSE selected

\* update_action_availability: enabled
ActionsEnabled ==
    ~busy /\ project_selected /\ project_path # "" /\ src_dir # NoDir

Event(op, arg, checked, report) ==
    [op |-> op, arg |-> arg, checked |-> checked, report |-> report]

InitProject ==
    /\ edition = "modern"
    /\ detected_strings = <<>>
    /\ generated_keys = <<>>
    /\ gen_runs = 0
    /\ prev_generated = <<>>
    /\ locales = [l \in Langs |-> NoFile]
    /\ source_language = "en"
    /\ selected_languages = <<"en">>
    /\ tr = Idle
    /\ sync_streak = 0
    /\ provider_log = {}
    /\ NoReplace
    /\ NoClassify
    /\ NoMaintain
    /\ NoUi
    /\ NoScan

\* on_folder_selected(selected_path)
FolderSelected(p) ==
    LET found == FirstSrcName(p)
        dir == IF found # "" THEN [project |-> p, name |-> found] ELSE src_dir
        i18n == I18nDir(dir)
        setup == i18n.config /\ i18n.locales
        inferred_unique == SortedLangs(i18n.stems)
        source == IF "en" \in i18n.stems THEN "en" ELSE inferred_unique[1]
    IN /\ project_path' = p
       /\ src_dir' = dir
       /\ IF dir = NoDir
          THEN /\ last_event' = Event("folder", p, FALSE, "no_src")
               /\ UNCHANGED <<project_selected, has_i18n_setup, locales_dir,
                              source_language, selected_languages>>
          ELSE /\ project_selected' = TRUE
               /\ has_i18n_setup' = setup
               /\ locales_dir' = IF setup THEN dir ELSE locales_dir
               /\ last_event' = Event("folder", p, FALSE,
                                      IF setup THEN "configured" ELSE "setup_required")
               /\ IF setup /\ inferred_unique # <<>>
                  THEN /\ source_language' = source
                       /\ selected_languages' =
                              RefreshLanguageControls(inferred_unique, source)
                  ELSE IF setup
                  THEN /\ source_language' = source_language
                       /\ selected_languages' =
                              RefreshLanguageControls(selected_languages, source_language)
                  ELSE UNCHANGED <<source_language, selected_languages>>
    /\ UNCHANGED <<edition, genVars, locales, tr, sync_streak, provider_log, replaceVars,
                   clfVars, maintVars, busy, workers, scanVars>>

\* toggle_language(lang, checked)
ToggleLanguage(lang, checked) ==
    /\ selected_languages' =
           IF lang = source_language THEN selected_languages
           ELSE IF checked /\ lang \notin Range(selected_languages)
           THEN Append(selected_languages, lang)
           ELSE IF ~checked /\ lang \in Range(selected_languages)
           THEN ListRemove(selected_languages, lang)
           ELSE selected_languages
    /\ last_event' = Event("toggle", lang, checked, "")
    /\ UNCHANGED <<edition, genVars, locales, source_language, tr, sync_streak, provider_log,
                   replaceVars, clfVars, maintVars, project_path, src_dir, has_i18n_setup,
                   locales_dir, project_selected, busy, workers, scanVars>>

\* remove_language(lang), the on_delete of a chip
RemoveLanguage(lang) ==
    /\ selected_languages' =
           IF lang = source_language THEN selected_languages
           ELSE IF lang \in Range(selected_languages)
           THEN ListRemove(selected_languages, lang)
           ELSE selected_languages
    /\ last_event' = Event("remove", lang, FALSE, "")
    /\ UNCHANGED <<edition, genVars, locales, source_language, tr, sync_streak, provider_log,
                   replaceVars, clfVars, maintVars, project_path, src_dir, has_i18n_setup,
                   locales_dir, project_selected, busy, workers, scanVars>>

\* on_source_language_change(e), e.control.value = new_lang
SourceLanguageChange(new_lang) ==
    /\ IF ~project_selected
       THEN UNCHANGED <<source_language, selected_languages>>
       ELSE /\ source_language' = new_lang
            /\ selected_languages' = RefreshLanguageControls(selected_languages, new_lang)
    /\ last_event' = Event("source", new_lang, FALSE, "")
    /\ UNCHANGED <<edition, genVars, locales, tr, sync_streak, provider_log,
                   replaceVars, clfVars, maintVars, project_path, src_dir, has_i18n_setup,
                   locales_dir, project_selected, busy, workers, scanVars>>

\* set_busy(is_busy, text), called by the worker of an action that passed its
\* guards
SetBusy(is_busy) ==
    /\ project_path # ""
    /\ src_dir # NoDir
    /\ busy' = is_busy
    /\ selected_languages' = RefreshLanguageControls(selected_languages, source_language)
    /\ last_event' = Event("busy", "", is_busy, "")
    /\ UNCHANGED <<edition, genVars, locales, source_language, tr, sync_streak, provider_log,
                   replaceVars, clfVars, maintVars, project_path, src_dir, has_i18n_setup,
                   locales_dir, project_selected, workers, scanVars>>

NextProject ==
    \/ \E p \in Projects : FolderSelected(p)
    \/ \E l \in Langs : \E checked \in BOOLEAN : ToggleLanguage(l, checked)
    \/ \E l \in Langs : RemoveLanguage(l)
    \/ \E l \in Langs : SourceLanguageChange(l)
    \/ \E b \in BOOLEAN : SetBusy(b)

SpecProject == InitProject /\ [][NextProject]_vars

\* src_dir, has_i18n_setup and locales_dir describe the selected project p
ContextOf(p) ==
    LET dir == [project |-> p, name |-> FirstSrcName(p)]
        i18n == I18nDir(dir)
    IN /\ FirstSrcName(p) # ""
       /\ src_dir' = dir
       /\ has_i18n_setup' = (i18n.config /\ i18n.locales)
       /\ has_i18n_setup' => locales_dir' = dir

\* C25: after each folder selection either the selection is reported as having
\* no source directory and no operation is enabled, or src_dir is the first
\* existing one of src, app, client, frontend directly under the selected
\* project_path and has_i18n_setup and locales_dir describe that src_dir.
C25_ProjectContext ==
    [][last_event'.op = "folder" =>
          \/ last_event'.report = "no_src" /\ ~ActionsEnabled'
          \/ last_event'.report # "no_src" /\ ContextOf(project_path')]_vars

\* C29: the source language is always among the selected languages, and
\* toggling or removing the source language changes neither.
C29_SourceLanguageSelected ==
    /\ [](source_language \in Range(selected_languages))
    /\ [][last_event'.op \in {"toggle", "remove"} /\ last_event'.arg = source_language
             => /\ selected_languages' = selected_languages
                /\ source_language' = source_language]_vars

\* the chip of the source language 'de', inferred from the locale files, was
\* deleted, and 'de' is still selected beside another language
C29_Witness ==
    /\ last_event = Event("remove", "de", FALSE, "")
    /\ source_language = "de"
    /\ "de" \in Range(selected_languages)
    /\ Len(selected_languages) > 1

----------------------------------------------------------------------------
(* Pipeline of the Flet window: the action buttons and their worker threads *)

\* threads alive at a time in the model
MaxWorkers == 2

Ops == {"detect", "generate", "sync", "translate", "replace", "validate",
        "remove_duplicates"}

\* what a scan of the project finds: its source changes between the runs
PipelineDetections ==
    {<<>>,
     <<[text |-> T_Ab_c, file |-> F_home, context |-> "jsx_text"]>>,
     <<[text |-> T_Ab_d, file |-> F_home, context |-> "jsx_text"]>>,
     <<[text |-> T_Ab_c, file |-> F_home, context |-> "jsx_text"],
       [text |-> T_Ab_d, file |-> F_home, context |-> "jsx_text"]>>}

\* the project P1 selected, its two locale files as run_setup leaves them
InitPipeline ==
    /\ edition = "modern"
    /\ detected_strings = <<>>
    /\ generated_keys = <<>>
    /\ gen_runs = 0
    /\ prev_generated = <<>>
    /\ locales = [l \in Langs |-> IF l \in {"en", "nl"} THEN File(<<>>) ELSE NoFile]
    /\ source_language = "en"
    /\ selected_languages = <<"en", "nl">>
    /\ tr = Idle
    /\ sync_streak = 0
    /\ provider_log = {}
    /\ NoReplace
    /\ NoClassify
    /\ NoMaintain
    /\ project_path = "P1"
    /\ src_dir = [project |-> "P1", name |-> "src"]
    /\ has_i18n_setup = TRUE
    /\ locales_dir = [project |-> "P1", name |-> "src"]
    /\ project_selected = TRUE
    /\ busy = FALSE
    /\ last_event = Event("folder", "P1", FALSE, "configured")
    /\ workers = <<>>
    /\ NoScan

\* the checks of run_detect ... run_remove_duplicates after 'if busy: return'
ClickGuard(op) ==
    CASE op = "detect" -> project_path # "" /\ src_dir # NoDir
      [] op = "generate" -> detected_strings # <<>>
      [] op \in {"translate", "replace"} ->
             generated_keys # <<>> /\ project_path # "" /\ has_i18n_setup
      [] OTHER -> project_path # "" /\ has_i18n_setup

\* run_<op>(e): a click that passes the checks starts the worker thread; busy
\* is not set here but by the worker
RunAction(op) ==
    /\ ~busy
    /\ ClickGuard(op)
    /\ Len(workers) < MaxWorkers
    /\ workers' = Append(workers, [op |-> op, pc |-> "started"])
    /\ UNCHANGED <<edition, genVars, localeVars, replaceVars, clfVars, maintVars,
                   project_path, src_dir, has_i18n_setup, locales_dir, project_selected,
                   busy, last_event, scanVars>>

\* the first statement of worker(): set_busy(True, ...)
WorkerSetBusy(i) ==
    /\ workers[i].pc = "started"
    /\ busy' = TRUE
    /\ selected_languages' = RefreshLanguageControls(selected_languages, source_language)
    /\ workers' = [workers EXCEPT ![i].pc = "running"]
    /\ UNCHANGED <<edition, genVars, locales, source_language, tr, sync_streak, provider_log,
                   replaceVars, clfVars, maintVars, project_path, src_dir, has_i18n_setup,
                   locales_dir, project_selected, last_event, scanVars>>

\* translate_to_languages(keys_mapping, languages), both loops, with a provider
\* that answers every call
TranslateToLanguages(dir, keys_mapping, languages, source_lang) ==
    LET written == WriteKeysResult(dir, keys_mapping, languages, source_lang)
    IN TranslateFillResult(written, languages, source_lang, [l \in Langs |-> {}])

\* the body of worker() between set_busy(True) and the finally clause: the call
\* of the manager. The source files replace_in_source_code rewrites and the
\* reports of the validation and of the duplicate removal, which go to status
\* cards, are out of view here.
WorkerBody(i) ==
    LET op == workers[i].op
    IN /\ workers[i].pc = "running"
       /\ workers' = [workers EXCEPT ![i].pc = "done"]
       /\ IF op = "detect" THEN detected_strings' \in PipelineDetections
          ELSE detected_strings' = detected_strings
       /\ generated_keys' = IF op = "generate"
                            THEN GenerateTranslationKeys(generated_keys, detected_strings)
                            ELSE generated_keys
       /\ locales' =
              CASE op = "sync" -> SyncTranslationKeysResult(locales, source_language)
                [] op = "translate" ->
                       TranslateToLanguages(locales, generated_keys, selected_languages,
                                            source_language)
                [] op = "remove_duplicates" ->
                       RemoveDuplicateKeysFromLocalesResult(locales).dir
                [] OTHER -> locales
       /\ UNCHANGED <<edition, gen_runs, prev_generated, source_language, selected_languages,
                      tr, sync_streak, provider_log, replaceVars, clfVars, maintVars,
                      project_path, src_dir, has_i18n_setup, locales_dir, project_selected,
                      busy, last_event, scanVars>>

\* finally: set_busy(False, ""), and the thread ends
WorkerFinally(i) ==
    /\ workers[i].pc = "done"
    /\ busy' = FALSE
    /\ selected_languages' = RefreshLanguageControls(selected_languages, source_language)
    /\ workers' = SubSeq(workers, 1, i - 1) \o SubSeq(workers, i + 1, Len(workers))
    /\ UNCHANGED <<edition, genVars, locales, source_language, tr, sync_streak, provider_log,
                   replaceVars, clfVars, maintVars, project_path, src_dir, has_i18n_setup,
                   locales_dir, project_selected, last_event, scanVars>>

NextPipeline ==
    \/ \E op \in Ops : RunAction(op)
    \/ \E i \in 1..Len(workers) : WorkerSetBusy(i)
    \/ \E i \in 1..Len(workers) : WorkerBody(i)
    \/ \E i \in 1..Len(workers) : WorkerFinally(i)

SpecPipeline == InitPipeline /\ [][NextPipeline]_vars

----------------------------------------------------------------------------
(* Pipeline: properties *)

\* C22: at most one worker of the Flet window is started and not finished at
\* a time: a click on an action while a worker is alive starts no second one.
C22_OneWorkerAtATime == Len(workers) <= 1

\* a click on op started a worker
Started(op) ==
    /\ Len(workers') = Len(workers) + 1
    /\ workers'[Len(workers')].op = op

\* the worker of an op calls the manager
BodyOf(op) ==
    \E i \in 1..Len(workers) :
        /\ workers[i].op = op
        /\ workers[i].pc = "running"
        /\ Len(workers') = Len(workers)
        /\ workers'[i].pc = "done"

\* the file of the source language holds every key of the mapping with its text
WrittenToLocales(keys_mapping, dir, source_lang) ==
    /\ dir[source_lang].exists
    /\ \A i \in 1..Len(keys_mapping) :
           /\ keys_mapping[i].k \in FQKeys(dir[source_lang].data)
           /\ Leaf(dir[source_lang].data, keys_mapping[i].k) = keys_mapping[i].v.text

C21_KeysStableAcrossRuns ==
    [][BodyOf("translate") =>
          \A fq \in FQKeys(locales[source_language].data) :
              /\ fq \in FQKeys(locales'[source_language].data)
              /\ Leaf(locales'[source_language].data, fq)
                     = Leaf(locales[source_language].data, fq)]_vars

============================================================================
